---- MODULE Spec2Model ----
(***************************************************************************)
(* unified-analytics: the Orchestrator (UnifiedAnalytics), the two         *)
(* Provider Proxies (CountlyProvider, PostHogProvider), the four Adapters  *)
(* (Countly/PostHog x web/native) and the Platform Resolver.               *)
(*                                                                         *)
(* Encoding of JavaScript values:                                          *)
(*   undefined / null / absent  is the empty tuple  Undef == << >>         *)
(*   a present value x          is the 1-tuple      Some(x) == << x >>     *)
(*   an object used as a mapping is a function from the keys present      *)
(*   to their values; the empty object is the empty function               *)
(***************************************************************************)
EXTENDS Integers, Sequences, FiniteSets, Bags, TLC

VARIABLES
    env,                 \* the runtime the process runs in (read by autoDetectPlatform)
    currentPlatform,     \* platform.js: let currentPlatform
    initialized,         \* UnifiedAnalytics.initialized
    config,              \* UnifiedAnalytics.config
    countlyProvider,     \* UnifiedAnalytics.countlyProvider: Undef or Some(proxy id)
    posthogProvider,     \* UnifiedAnalytics.posthogProvider: Undef or Some(proxy id)
    trackScreenViews,    \* UnifiedAnalytics._trackScreenViews
    screenViewOverrides, \* UnifiedAnalytics.screenViewOverrides (Map)
    routeNameRef,        \* UnifiedAnalytics.routeNameRef
    previousPath,        \* previousPath in the closure of each handler object made by
                         \* createWebNavigationHandlers, in the order of creation
    proxies,             \* heap of Proxy objects and their bound Adapters
    tasks,               \* the init() calls that are suspended at an await
    awaited,             \* bag of the Adapter methods suspended at an await of the SDK
                         \* (native shutdown() and getDeviceId())
    last                 \* outcome of the most recent call made by the application

navVars == << screenViewOverrides, routeNameRef, previousPath >>

vars == << env, currentPlatform, initialized, config, countlyProvider,
           posthogProvider, trackScreenViews, screenViewOverrides, routeNameRef,
           previousPath, proxies, tasks, awaited, last >>

----------------------------------------------------------------------------
\* JavaScript value helpers

Undef == << >>
Some(x) == << x >>
IsSet(o) == o # << >>

\* truthiness of an optional string: undefined, null and "" are falsy
TruthyStr(o) == o # << >> /\ o[1] # ""

\* truthiness of an optional boolean
TruthyBool(o) == o # << >> /\ o[1] = TRUE

\* o ?? d
Coalesce(o, d) == IF o = << >> THEN d ELSE o[1]

----------------------------------------------------------------------------
\* Bounds of the model

Provs == {"countly", "posthog"}
Envs == {"reactnative", "browser", "other"}

\* slots for init() calls that are suspended at an await; the Proxies an init()
\* call constructs are identified by << slot, provider >>
Tasks == {1, 2}
ProxyIds == Tasks \X Provs

\* values of optional string fields: absent, empty, present
StrFields == {Undef, Some(""), Some("x")}
\* values of optional boolean fields
BoolFields == {Undef, Some(FALSE), Some(TRUE)}
\* values handed to the platform option (AnalyticsConfig.platform, setPlatform)
PlatformInputs == {"web", "native", "ios"}
\* values of the debug options
DebugFields == {Undef, Some(TRUE)}

CountlyBlocks == [serverUrl : StrFields, appKey : StrFields, debug : DebugFields]
PostHogBlocks == [apiKey : StrFields, debug : DebugFields]

\* AnalyticsConfig objects
AllConfigs ==
    [platform : {Undef} \cup {Some(p) : p \in PlatformInputs},
     debug : DebugFields,
     trackScreenViews : BoolFields,
     countly : {Undef} \cup {Some(b) : b \in CountlyBlocks},
     posthog : {Undef} \cup {Some(b) : b \in PostHogBlocks}]

BlockComplete(c) ==
    /\ c.countly # Undef \/ c.posthog # Undef
    /\ c.countly # Undef => c.countly[1].serverUrl = Some("x") /\ c.countly[1].appKey = Some("x")
    /\ c.posthog # Undef => c.posthog[1].apiKey = Some("x")

HasBothBlocks(c) == c.countly # Undef /\ c.posthog # Undef

BlockDebugUnset(c) ==
    /\ c.countly # Undef => c.countly[1].debug = Undef
    /\ c.posthog # Undef => c.posthog[1].debug = Undef

\* the configs init() is called with: every combination of provider blocks and
\* required fields under default options, and, for complete blocks, every
\* value of one option group at a time (platform, trackScreenViews, debug)
Configs ==
    {c \in AllConfigs :
        \/ /\ c.platform = Undef /\ c.debug = Undef /\ c.trackScreenViews = Undef
           /\ BlockDebugUnset(c)
        \/ /\ BlockComplete(c) /\ BlockDebugUnset(c)
           /\ c.debug = Undef /\ c.trackScreenViews = Undef
        \/ /\ BlockComplete(c) /\ BlockDebugUnset(c)
           /\ c.debug = Undef /\ c.platform = Undef
        \/ /\ BlockComplete(c)
           /\ c.platform = Undef /\ c.trackScreenViews = Undef}

\* complete provider blocks under default options
BasicConfigs ==
    {c \in Configs :
        /\ BlockComplete(c) /\ BlockDebugUnset(c)
        /\ c.platform = Undef /\ c.debug = Undef /\ c.trackScreenViews = Undef}

\* keys and values of global properties
PropKeys == {"k1", "k2"}
PropVals == {"a", "b"}
\* which providers' SDK calls throw during one call of the application
Fails == SUBSET Provs

\* no SDK call throws, or all do
FailsAll == {{}, Provs}

\* both provider blocks complete; trackScreenViews left out or given as false
NavConfigs ==
    {c \in Configs :
        /\ BlockComplete(c) /\ BlockDebugUnset(c) /\ HasBothBlocks(c)
        /\ c.platform = Undef /\ c.debug = Undef
        /\ c.trackScreenViews \in {Undef, Some(FALSE)}}

\* screens of the application, custom view names, and what a navigation
\* handler can be handed as the current route
Screens == {"Login", "Home"}
\* the overrides the navigation scenario registers: an empty and a non-empty
\* custom name for one screen
Overrides == {<< "Login", "" >>, << "Login", "Custom" >>}
Routes == {Undef, Some("")} \cup {Some(n) : n \in Screens}

----------------------------------------------------------------------------
\* Platform Resolver (src/platform.js)

autoDetectPlatform(e) ==
    IF e = "reactnative" THEN "native"
    ELSE IF e = "browser" THEN "web"
    ELSE "native"

\* setPlatform throws unless the value is web or native
setPlatformThrows(p) == p # "web" /\ p # "native"

\* getPlatform() that detects the platform anew on every call
getPlatformCache_redetect(cur, e) == Some(autoDetectPlatform(e))

\* the value of currentPlatform after getPlatform() has run
getPlatformCache(cur, e) ==
    IF cur = Undef THEN Some(autoDetectPlatform(e)) ELSE cur

getPlatform(cur, e) == getPlatformCache(cur, e)[1]

----------------------------------------------------------------------------
\* validateConfig (utils/helpers)

\* validateConfig without the countly.appKey check
validateConfig_noAppKey(c) ==
    LET e1 == IF ~IsSet(c.countly) /\ ~IsSet(c.posthog)
              THEN << "At least one provider (countly or posthog) must be configured" >>
              ELSE << >>
        e2 == IF IsSet(c.countly) /\ ~TruthyStr(c.countly[1].serverUrl)
              THEN << "countly.serverUrl is required" >> ELSE << >>
        e4 == IF IsSet(c.posthog) /\ ~TruthyStr(c.posthog[1].apiKey)
              THEN << "posthog.apiKey is required" >> ELSE << >>
        errors == e1 \o e2 \o e4
    IN [valid |-> errors = << >>, errors |-> errors]

validateConfig(c) ==
    LET e1 == IF ~IsSet(c.countly) /\ ~IsSet(c.posthog)
              THEN << "At least one provider (countly or posthog) must be configured" >>
              ELSE << >>
        e2 == IF IsSet(c.countly) /\ ~TruthyStr(c.countly[1].serverUrl)
              THEN << "countly.serverUrl is required" >> ELSE << >>
        e3 == IF IsSet(c.countly) /\ ~TruthyStr(c.countly[1].appKey)
              THEN << "countly.appKey is required" >> ELSE << >>
        e4 == IF IsSet(c.posthog) /\ ~TruthyStr(c.posthog[1].apiKey)
              THEN << "posthog.apiKey is required" >> ELSE << >>
        errors == e1 \o e2 \o e3 \o e4
    IN [valid |-> errors = << >>, errors |-> errors]

----------------------------------------------------------------------------
\* Objects

EmptyObj == << >>

\* a Proxy (CountlyProvider / PostHogProvider) together with the Adapter it
\* binds in _impl; impl = "none" is _impl === null
NoProxy ==
    [created |-> FALSE,      \* the Proxy object exists
     debug |-> FALSE,        \* Proxy._debug
     impl |-> "none",        \* class of Proxy._impl: none, web, native
     ainit |-> FALSE,        \* Adapter.initialized
     adebug |-> FALSE,       \* Adapter.debug
     store |-> EmptyObj,     \* Adapter.userContext / Adapter.registeredProperties
     client |-> FALSE,       \* PostHog Adapter.posthogClient !== null
     callback |-> FALSE,     \* PostHog Adapter.featureFlagsCallback !== null
     gen |-> 0]              \* how many Adapter instances _impl has been bound to

\* an init() call: where it is suspended, and its local variables
\* (gen is the Adapter instance the call bound and is initializing)
IdleTask == [pc |-> "idle", prov |-> "-", cfg |-> Undef, variant |-> "-", gen |-> 0]

\* what the application observed from its most recent call; arg is the
\* argument of the call (for init(): the config, when the call got past the
\* already-initialized guard)
Outcome(op, err, ret, arg, calls, sdk) ==
    [op |-> op, err |-> err, ret |-> ret, arg |-> arg, calls |-> calls, sdk |-> sdk]

Done(op) == Outcome(op, "none", Undef, Undef, << >>, << >>)

----------------------------------------------------------------------------
\* Proxy and Adapter reads

\* Proxy.isInitialized(): this._impl?.isInitialized() ?? false
Proxy_isInitialized(px) == px.impl # "none" /\ px.ainit

\* this.countlyProvider?.isInitialized() in the Orchestrator; a reference is
\* Undef (null) or Some(proxy id)
RefActive(prox, ref) == ref # Undef /\ Proxy_isInitialized(prox[ref[1]])

CountlyActive == RefActive(proxies, countlyProvider)
PostHogActive == RefActive(proxies, posthogProvider)

\* getEnabledProviders testing the Countly reference in both branches
getEnabledProviders_sameRef ==
    (IF CountlyActive THEN << "countly" >> ELSE << >>)
    \o (IF CountlyActive THEN << "posthog" >> ELSE << >>)

getEnabledProviders ==
    (IF CountlyActive THEN << "countly" >> ELSE << >>)
    \o (IF PostHogActive THEN << "posthog" >> ELSE << >>)

hasProvider(name) ==
    IF name = "countly" THEN CountlyActive
    ELSE IF name = "posthog" THEN PostHogActive
    ELSE FALSE

isInitialized == initialized

----------------------------------------------------------------------------
\* UnifiedAnalytics.init(config). An init() call runs synchronously up to its
\* first await and is then resumed when the awaited promise settles:
\*   pc = "import"     Proxy.init awaits the dynamic import of the Adapter module
\*   pc = "sdk", ...   Adapter.init is suspended at one of its awaits (AdapterPhases)
\*   pc = "fulfilled"  Adapter.init has returned; init() is not resumed yet
\*   pc = "failed"     the import or Adapter.init has thrown; the catch block
\*                     of init() has not run yet
\*   pc = "done"       the promise returned by init() is resolved

Commit(plat, ini, cfgv, cRef, pRef, tsv, prox, tks, lst) ==
    /\ currentPlatform' = plat
    /\ initialized' = ini
    /\ config' = cfgv
    /\ countlyProvider' = cRef
    /\ posthogProvider' = pRef
    /\ trackScreenViews' = tsv
    /\ proxies' = prox
    /\ tasks' = tks
    /\ last' = lst
    /\ UNCHANGED << env, awaited, navVars >>


\* new XProvider(); setDebug(config.debug || false); await proxy.init(config.x)
\* up to the await in Proxy.init (which has read the platform by then); the
\* block does not write this.config, which stays cfgv
InitProvider(t, cfg, p, plat, cfgv, cRef, pRef, tsv, prox, arg) ==
    LET id == << t, p >>
        plat2 == getPlatformCache(plat, env)
        px == [NoProxy EXCEPT !.created = TRUE, !.debug = TruthyBool(cfg.debug)]
    IN Commit(plat2, initialized, cfgv,
              IF p = "countly" THEN Some(id) ELSE cRef,
              IF p = "posthog" THEN Some(id) ELSE pRef,
              tsv,
              [prox EXCEPT ![id] = px],
              [tasks EXCEPT ![t] = [pc |-> "import", prov |-> p, cfg |-> Some(cfg),
                                    variant |-> plat2[1], gen |-> 0]],
              Outcome("init.await", "none", Undef, arg, << >>, << >>))

\* init() that sets initialized only when some provider came up
InitFrom_flagOnSuccess(t, cfg, stage, plat, cfgv, cRef, pRef, tsv, prox) ==
    LET arg == IF stage = "start" THEN Some(cfg) ELSE Undef
    IN
    IF stage = "start" /\ IsSet(cfg.countly)
    THEN InitProvider(t, cfg, "countly", plat, cfgv, cRef, pRef, tsv, prox, arg)
    ELSE IF stage \in {"start", "afterCountly"} /\ IsSet(cfg.posthog)
    THEN InitProvider(t, cfg, "posthog", plat, cfgv, cRef, pRef, tsv, prox, arg)
    ELSE Commit(plat, RefActive(prox, cRef) \/ RefActive(prox, pRef),
                cfgv, cRef, pRef, tsv, prox,
                [tasks EXCEPT ![t] = [pc |-> "done", prov |-> "-", cfg |-> Some(cfg),
                                      variant |-> "-", gen |-> 0]],
                Outcome("init.resolved", "none", Undef, arg, << >>, << >>))

\* init() from one of its three stages on: before the Countly block, after it,
\* after the PostHog block
InitFrom(t, cfg, stage, plat, cfgv, cRef, pRef, tsv, prox) ==
    LET arg == IF stage = "start" THEN Some(cfg) ELSE Undef
    IN
    IF stage = "start" /\ IsSet(cfg.countly)
    THEN InitProvider(t, cfg, "countly", plat, cfgv, cRef, pRef, tsv, prox, arg)
    ELSE IF stage \in {"start", "afterCountly"} /\ IsSet(cfg.posthog)
    THEN InitProvider(t, cfg, "posthog", plat, cfgv, cRef, pRef, tsv, prox, arg)
    ELSE Commit(plat, TRUE, cfgv, cRef, pRef, tsv, prox,
                [tasks EXCEPT ![t] = [pc |-> "done", prov |-> "-", cfg |-> Some(cfg),
                                      variant |-> "-", gen |-> 0]],
                Outcome("init.resolved", "none", Undef, arg, << >>, << >>))

After(p) == IF p = "countly" THEN "afterCountly" ELSE "afterPosthog"

\* a provider's init has thrown inside init() and the error is not caught:
\* the promise returned by init() rejects
ProviderInitFailed_uncaught(t, cfg, p) ==
    /\ tasks' = [tasks EXCEPT ![t] = [pc |-> "rejected", prov |-> "-", cfg |-> Some(cfg),
                                      variant |-> "-", gen |-> 0]]
    /\ last' = Outcome("init.rejected", "ProviderInitializationError",
                       Undef, Undef, << >>, << >>)
    /\ UNCHANGED << env, awaited, navVars, currentPlatform, initialized, config, countlyProvider,
                    posthogProvider, trackScreenViews, proxies >>

\* a provider's init has thrown inside init(): the catch block logs, sets the
\* Orchestrator's reference to that provider to null, and init() goes on
ProviderInitFailed(t, cfg, p) ==
    InitFrom(t, cfg, After(p), currentPlatform, config,
             IF p = "countly" THEN Undef ELSE countlyProvider,
             IF p = "posthog" THEN Undef ELSE posthogProvider,
             trackScreenViews, proxies)

InFlight(t) ==
    tasks[t].pc \in {"import", "sdk", "sdk.config", "sdk.isInitialized",
                     "sdk.initWithConfig", "fulfilled", "failed"}
FreeTasks == {t \in Tasks : tasks[t].pc = "idle"}
FirstFree == CHOOSE t \in FreeTasks : \A u \in FreeTasks : t <= u

\* init() that validates the config before it looks at the initialized flag
UnifiedAnalytics_init_validateFirst(cfg, overlap) ==
    /\ overlap \/ \A t \in Tasks : ~InFlight(t)
    /\ IF ~validateConfig(cfg).valid
       THEN /\ last' = Outcome("init", "ConfigurationError", Undef, Some(cfg), << >>, << >>)
            /\ UNCHANGED << env, awaited, navVars, currentPlatform, initialized, config, countlyProvider,
                            posthogProvider, trackScreenViews, proxies, tasks >>
       ELSE IF initialized
       THEN /\ last' = Outcome("init", "none", Undef, Undef, << >>, << >>)
            /\ UNCHANGED << env, awaited, navVars, currentPlatform, initialized, config, countlyProvider,
                            posthogProvider, trackScreenViews, proxies, tasks >>
       ELSE IF TruthyStr(cfg.platform) /\ setPlatformThrows(cfg.platform[1])
       THEN /\ config' = Some(cfg)
            /\ last' = Outcome("init", "InvalidPlatform", Undef, Some(cfg), << >>, << >>)
            /\ UNCHANGED << env, awaited, navVars, currentPlatform, initialized, countlyProvider,
                            posthogProvider, trackScreenViews, proxies, tasks >>
       ELSE /\ FreeTasks # {}
            /\ InitFrom(FirstFree, cfg, "start",
                        IF TruthyStr(cfg.platform) THEN cfg.platform ELSE currentPlatform,
                        Some(cfg), countlyProvider, posthogProvider,
                        cfg.trackScreenViews # Some(FALSE), proxies)

\* init() that also returns at once while another init() call is in flight
UnifiedAnalytics_init_locked(cfg, overlap) ==
    /\ FreeTasks # {}
    /\ IF initialized \/ \E t \in Tasks : InFlight(t)
       THEN /\ last' = Outcome("init", "none", Undef, Undef, << >>, << >>)
            /\ UNCHANGED << env, awaited, navVars, currentPlatform, initialized, config, countlyProvider,
                            posthogProvider, trackScreenViews, proxies, tasks >>
       ELSE InitFrom(FirstFree, cfg, "start",
                     IF TruthyStr(cfg.platform) THEN cfg.platform ELSE currentPlatform,
                     Some(cfg), countlyProvider, posthogProvider,
                     cfg.trackScreenViews # Some(FALSE), proxies)

\* the application calls analytics.init(cfg); overlap says whether the caller
\* may do so while an earlier init() is still suspended
UnifiedAnalytics_init(cfg, overlap) ==
    /\ overlap \/ \A t \in Tasks : ~InFlight(t)
    /\ IF initialized
       THEN /\ last' = Outcome("init", "none", Undef, Undef, << >>, << >>)
            /\ UNCHANGED << env, awaited, navVars, currentPlatform, initialized, config, countlyProvider,
                            posthogProvider, trackScreenViews, proxies, tasks >>
       ELSE IF ~validateConfig(cfg).valid
       THEN /\ last' = Outcome("init", "ConfigurationError", Undef, Some(cfg), << >>, << >>)
            /\ UNCHANGED << env, awaited, navVars, currentPlatform, initialized, config, countlyProvider,
                            posthogProvider, trackScreenViews, proxies, tasks >>
       ELSE IF TruthyStr(cfg.platform) /\ setPlatformThrows(cfg.platform[1])
       THEN /\ config' = Some(cfg)
            /\ last' = Outcome("init", "InvalidPlatform", Undef, Some(cfg), << >>, << >>)
            /\ UNCHANGED << env, awaited, navVars, currentPlatform, initialized, countlyProvider,
                            posthogProvider, trackScreenViews, proxies, tasks >>
       ELSE /\ FreeTasks # {}
            /\ InitFrom(FirstFree, cfg, "start",
                        IF TruthyStr(cfg.platform) THEN cfg.platform ELSE currentPlatform,
                        Some(cfg), countlyProvider, posthogProvider,
                        cfg.trackScreenViews # Some(FALSE), proxies)

\* Proxy.init after its import: this._impl = new ProviderClass(), then
\* setDebug(this._debug), then Adapter.init on the new instance up to its
\* await, which sets this.debug = config.debug ?? false
Proxy_bind(px, variant, block) ==
    [px EXCEPT !.impl = variant,
               !.ainit = FALSE,
               !.adebug = Coalesce(block.debug, FALSE),
               !.store = EmptyObj,
               !.client = FALSE,
               !.callback = FALSE,
               !.gen = @ + 1]

\* the awaits of Adapter.init, in order: every Adapter awaits the import of its
\* SDK module; the native Countly Adapter then awaits the import of
\* CountlyConfig, Countly.isInitialized() and Countly.initWithConfig(...)
AdapterPhases == {"sdk", "sdk.config", "sdk.isInitialized", "sdk.initWithConfig"}

\* how an await of Adapter.init ends and how the code up to the next await
\* goes on:
\*   rejects      the awaited promise rejects
\*   resolves     it resolves and the code that follows runs through
\*   already      Countly.isInitialized() answers true
\*   throws       it resolves and the SDK's init call that follows throws
\*   setupThrows  (Countly) the SDK's init call has gone through and a set-up
\*                call after it throws: on the web track_errors, add_consent
\*                or track_sessions after Countly.init, on native
\*                disableLocation after the awaited initWithConfig
AwaitResults == {"rejects", "resolves", "already", "throws", "setupThrows"}

AwaitResultsOf(p, variant, phase) ==
    IF p = "countly" /\ variant = "native"
    THEN IF phase = "sdk.isInitialized"
         THEN {"rejects", "resolves", "already", "throws"}
         ELSE IF phase = "sdk.initWithConfig"
         THEN {"rejects", "resolves", "setupThrows"}
         ELSE {"rejects", "resolves"}
    ELSE IF phase # "sdk" THEN {}
    ELSE IF p = "countly" THEN {"rejects", "resolves", "throws", "setupThrows"}
    ELSE {"rejects", "resolves", "throws"}

SdkInit(p, ok) == [p |-> p, fn |-> "init", name |-> "", props |-> << >>, ok |-> ok]

\* Adapter.init resumed from the await it is suspended at (phase) up to its
\* next await, its return or its rethrow: the Adapter afterwards, the calls of
\* the SDK's init made, and where Adapter.init is then ("fulfilled" when it
\* has returned, "failed" when it has logged and rethrown the error)
Adapter_init(px, p, variant, phase, r) ==
    IF r = "rejects" THEN [px |-> px, sdk |-> << >>, next |-> "failed"]
    ELSE IF p = "countly" /\ variant = "native"
    THEN CASE phase = "sdk" -> [px |-> px, sdk |-> << >>, next |-> "sdk.config"]
           [] phase = "sdk.config" -> [px |-> px, sdk |-> << >>, next |-> "sdk.isInitialized"]
           [] phase = "sdk.isInitialized" ->
                 IF r = "already"
                 THEN [px |-> [px EXCEPT !.ainit = TRUE], sdk |-> << >>, next |-> "fulfilled"]
                 ELSE IF r = "throws"
                 THEN [px |-> px, sdk |-> << SdkInit(p, FALSE) >>, next |-> "failed"]
                 ELSE [px |-> px, sdk |-> << SdkInit(p, TRUE) >>,
                       next |-> "sdk.initWithConfig"]
           [] phase = "sdk.initWithConfig" ->
                 IF r = "setupThrows"
                 THEN [px |-> px, sdk |-> << >>, next |-> "failed"]
                 ELSE [px |-> [px EXCEPT !.ainit = TRUE], sdk |-> << >>,
                       next |-> "fulfilled"]
    ELSE IF r = "throws"
    THEN [px |-> px, sdk |-> << SdkInit(p, FALSE) >>, next |-> "failed"]
    ELSE IF r = "setupThrows"
    THEN [px |-> px, sdk |-> << SdkInit(p, TRUE) >>, next |-> "failed"]
    ELSE [px |-> [px EXCEPT !.ainit = TRUE, !.client = (p = "posthog")],
          sdk |-> << SdkInit(p, TRUE) >>, next |-> "fulfilled"]

\* the dynamic import in Proxy.init settles: on success the Proxy binds a new
\* Adapter, forwards its debug flag and calls Adapter.init, which runs up to
\* its own await; on failure Proxy.init rejects
Proxy_init_resume(t, ok) ==
    /\ tasks[t].pc = "import"
    /\ LET p == tasks[t].prov
           cfg == tasks[t].cfg[1]
           id == << t, p >>
           block == IF p = "countly" THEN cfg.countly[1] ELSE cfg.posthog[1]
       IN IF ok
          THEN /\ proxies' = [proxies EXCEPT ![id] = Proxy_bind(@, tasks[t].variant, block)]
               /\ tasks' = [tasks EXCEPT ![t].pc = "sdk", ![t].gen = proxies[id].gen + 1]
               /\ last' = Done("init.await")
          ELSE /\ tasks' = [tasks EXCEPT ![t].pc = "failed"]
               /\ last' = Done("init.settled")
               /\ UNCHANGED proxies
    /\ UNCHANGED << env, awaited, navVars, currentPlatform, initialized, config,
                    countlyProvider, posthogProvider, trackScreenViews >>

\* an await of Adapter.init settles and Adapter.init runs to its next await,
\* returns or rethrows; the Adapter it works on is the one this call bound,
\* which the Proxy may have replaced since
Adapter_init_resume(t, r) ==
    /\ tasks[t].pc \in AdapterPhases
    /\ r \in AwaitResultsOf(tasks[t].prov, tasks[t].variant, tasks[t].pc)
    /\ LET p == tasks[t].prov
           id == << t, p >>
           e == Adapter_init(proxies[id], p, tasks[t].variant, tasks[t].pc, r)
       IN /\ proxies' = IF proxies[id].gen = tasks[t].gen
                         THEN [proxies EXCEPT ![id] = e.px] ELSE proxies
          /\ tasks' = [tasks EXCEPT ![t].pc = e.next]
          /\ last' = Outcome(IF e.next \in AdapterPhases THEN "init.await" ELSE "init.settled",
                             "none", Undef, Undef, << >>, e.sdk)
    /\ UNCHANGED << env, awaited, navVars, currentPlatform, initialized, config,
                    countlyProvider, posthogProvider, trackScreenViews >>

\* init() is resumed from await proxy.init(...): it goes on after the provider
\* block, or through the block's catch when the promise was rejected
UnifiedAnalytics_init_resume(t) ==
    /\ tasks[t].pc \in {"fulfilled", "failed"}
    /\ IF tasks[t].pc = "fulfilled"
       THEN InitFrom(t, tasks[t].cfg[1], After(tasks[t].prov), currentPlatform, config,
                     countlyProvider, posthogProvider, trackScreenViews, proxies)
       ELSE ProviderInitFailed(t, tasks[t].cfg[1], tasks[t].prov)

----------------------------------------------------------------------------
\* JavaScript objects used as property bags: functions from the keys present
\* to their values. A string value is itself; the values that are not strings
\* are written "<true>", "<false>", "<null>" and "<undefined>".

\* { ...a, ...b }
Merge(a, b) ==
    [k \in (DOMAIN a) \cup (DOMAIN b) |-> IF k \in DOMAIN b THEN b[k] ELSE a[k]]

\* delete a[k]
Delete(a, k) == [x \in (DOMAIN a) \ {k} |-> a[x]]

\* all objects with keys among ks and values among vs
Objs(ks, vs) == UNION {[D -> vs] : D \in SUBSET ks}

\* BaseProvider.safeString
safeString(v) ==
    IF v \in {"<null>", "<undefined>"} THEN ""
    ELSE IF v = "<true>" THEN "true"
    ELSE IF v = "<false>" THEN "false"
    ELSE v

\* BaseProvider.stringifyProperties: undefined values are dropped, the others
\* become strings
stringifyProperties(o) ==
    [k \in {x \in DOMAIN o : o[x] # "<undefined>"} |-> safeString(o[k])]

\* one call received by a Proxy, and one call made on an SDK (ok: it returned)
Call(p, fn, name, props) == [p |-> p, fn |-> fn, name |-> name, props |-> props]
SdkCall(p, fn, name, props, ok) ==
    [p |-> p, fn |-> fn, name |-> name, props |-> props, ok |-> ok]

\* result of a Proxy method: the Proxy/Adapter afterwards and the SDK calls made
Eff(px, sdk) == [px |-> px, sdk |-> sdk]

\* BaseProvider.ensureInitialized, reached through this._impl?.
Adapter_ready(px) == px.impl # "none" /\ px.ainit

----------------------------------------------------------------------------
\* Countly user context and PostHog super properties

\* Countly setUserContext that replaces the stored context
CountlyProvider_setUserContext_replace(px, props) ==
    IF ~Adapter_ready(px) THEN Eff(px, << >>)
    ELSE Eff([px EXCEPT !.store = props], << >>)

\* Countly setUserContext: this.userContext = {...this.userContext, ...properties}
CountlyProvider_setUserContext(px, props) ==
    IF ~Adapter_ready(px) THEN Eff(px, << >>)
    ELSE Eff([px EXCEPT !.store = Merge(@, props)], << >>)

\* Countly getUserContext: a copy of the stored context, {} without an Adapter
CountlyProvider_getUserContext(px) ==
    IF px.impl = "none" THEN EmptyObj ELSE px.store

CountlyProvider_clearUserContext(px) ==
    IF px.impl = "none" THEN Eff(px, << >>)
    ELSE Eff([px EXCEPT !.store = EmptyObj], << >>)

\* Countly reset: the native Adapter first switches to the temporary device id
\* (which catches its own SDK error), both clear the user context
CountlyProvider_reset(px, sdkOk) ==
    IF ~Adapter_ready(px) THEN Eff(px, << >>)
    ELSE Eff([px EXCEPT !.store = EmptyObj],
             IF px.impl = "native"
             THEN << SdkCall("countly", "changeDeviceId", "", EmptyObj, sdkOk) >>
             ELSE << >>)

\* PostHog register: the local copy is merged first, then the SDK is called;
\* an SDK error is caught and logged
PostHogProvider_register(px, props, sdkOk) ==
    IF ~Adapter_ready(px) THEN Eff(px, << >>)
    ELSE Eff([px EXCEPT !.store = Merge(@, props)],
             << SdkCall("posthog", "register", "", props, sdkOk) >>)

\* PostHog registerOnce: only the web Adapter has the method; it calls the
\* SDK's register_once first and merges the local copy afterwards, so an SDK
\* error (caught and logged) leaves the copy as it was
PostHogProvider_registerOnce(px, props, sdkOk) ==
    IF ~Adapter_ready(px) \/ px.impl # "web" THEN Eff(px, << >>)
    ELSE Eff(IF sdkOk THEN [px EXCEPT !.store = Merge(@, props)] ELSE px,
             << SdkCall("posthog", "register_once", "", props, sdkOk) >>)

PostHogProvider_getRegisteredProperties(px) ==
    IF px.impl = "none" THEN EmptyObj ELSE px.store

\* PostHog unregister: delete the local key, then call the SDK
PostHogProvider_unregister(px, key, sdkOk) ==
    IF ~Adapter_ready(px) THEN Eff(px, << >>)
    ELSE Eff([px EXCEPT !.store = Delete(@, key)],
             << SdkCall("posthog", "unregister", key, EmptyObj, sdkOk) >>)

\* PostHog clearRegisteredProperties: unregister every key at the SDK, then
\* empty the local copy; the first SDK error ends the loop and skips the reset
PostHogProvider_clearRegisteredProperties(px, sdkOk) ==
    IF ~Adapter_ready(px) THEN Eff(px, << >>)
    ELSE IF px.store = EmptyObj THEN Eff(px, << >>)
    ELSE IF sdkOk
    THEN Eff([px EXCEPT !.store = EmptyObj],
             << SdkCall("posthog", "unregister", "*", px.store, TRUE) >>)
    ELSE Eff(px, << SdkCall("posthog", "unregister", "*", px.store, FALSE) >>)

\* PostHog reset that also empties the local copy
PostHogProvider_reset_clears(px, sdkOk) ==
    IF ~Adapter_ready(px) THEN Eff(px, << >>)
    ELSE Eff([px EXCEPT !.store = EmptyObj],
             << SdkCall("posthog", "reset", "", EmptyObj, sdkOk) >>)

\* PostHog reset: only the SDK is reset, the local copy is kept
PostHogProvider_reset(px, sdkOk) ==
    IF ~Adapter_ready(px) THEN Eff(px, << >>)
    ELSE Eff(px, << SdkCall("posthog", "reset", "", EmptyObj, sdkOk) >>)

\* PostHog shutdown up to the point where the call returns. The web Adapter
\* calls the SDK's shutdown without awaiting it and clears initialized at
\* once; the native Adapter awaits it, so the Adapter is still initialized
\* when the call returns. An SDK call that throws leaves the Adapter as it was.
PostHogProvider_shutdown(px, sdkOk) ==
    IF ~Adapter_ready(px) THEN Eff(px, << >>)
    ELSE Eff(IF sdkOk /\ px.impl = "web" THEN [px EXCEPT !.ainit = FALSE] ELSE px,
             << SdkCall("posthog", "shutdown", "", EmptyObj, sdkOk) >>)

\* the native Adapter's shutdown() is suspended at
\* await this.posthogClient.shutdown()
PostHogProvider_shutdown_awaits(px, sdkOk) ==
    Adapter_ready(px) /\ px.impl = "native" /\ sdkOk

\* after the await: this.initialized = false when the SDK's promise has
\* resolved; the catch block, which only logs, when it has rejected
PostHogProvider_shutdown_resume(px, ok) ==
    IF ok THEN [px EXCEPT !.ainit = FALSE] ELSE px

\* Adapter methods suspended at once at most in a checked behaviour
MaxAwaited == 2

\* a suspended Adapter method: the Proxy, which of the Adapter instances the
\* Proxy has bound it was called on, and the method
Suspended(id, gen, fn) == [id |-> id, gen |-> gen, fn |-> fn]

\* the bag with the calls of set cs added
Suspend(cs) == awaited (+) SetToBag(cs)
CanSuspend(cs) == cs = {} \/ BagCardinality(awaited) < MaxAwaited

----------------------------------------------------------------------------
\* Orchestrator: dispatch to the active providers

\* an Orchestrator method that calls every Proxy it holds, active or not
Relay_anyRef(op, arg, ret, c, cc, h, hc) ==
    LET cAct == countlyProvider # Undef
        hAct == posthogProvider # Undef
        cid == countlyProvider[1]
        hid == posthogProvider[1]
        prox1 == IF cAct THEN [proxies EXCEPT ![cid] = c.px] ELSE proxies
        prox2 == IF hAct THEN [prox1 EXCEPT ![hid] = h.px] ELSE prox1
    IN /\ proxies' = prox2
       /\ last' = Outcome(op, "none", ret, arg,
                          (IF cAct THEN cc ELSE << >>) \o (IF hAct THEN hc ELSE << >>),
                          (IF cAct THEN c.sdk ELSE << >>) \o (IF hAct THEN h.sdk ELSE << >>))

\* the Orchestrator ran c on the Countly Proxy and h on the PostHog Proxy,
\* each only where the provider is active; cc and hc are the calls received
Relay(op, arg, ret, c, cc, h, hc) ==
    LET cAct == CountlyActive
        hAct == PostHogActive
        cid == countlyProvider[1]
        hid == posthogProvider[1]
        prox1 == IF cAct THEN [proxies EXCEPT ![cid] = c.px] ELSE proxies
        prox2 == IF hAct THEN [prox1 EXCEPT ![hid] = h.px] ELSE prox1
    IN /\ proxies' = prox2
       /\ last' = Outcome(op, "none", ret, arg,
                          (IF cAct THEN cc ELSE << >>) \o (IF hAct THEN hc ELSE << >>),
                          (IF cAct THEN c.sdk ELSE << >>) \o (IF hAct THEN h.sdk ELSE << >>))

Dispatch(op, arg, ret, c, cc, h, hc) ==
    /\ Relay(op, arg, ret, c, cc, h, hc)
    /\ UNCHANGED << env, awaited, navVars, currentPlatform, initialized, config,
                    countlyProvider, posthogProvider, trackScreenViews, tasks >>

\* the Proxy an Orchestrator reference points to (NoProxy for null)
Target(ref) == IF ref = Undef THEN NoProxy ELSE proxies[ref[1]]

UnifiedAnalytics_setGlobalProperties(props, fail) ==
    Dispatch("setGlobalProperties", Some(props), Undef,
             CountlyProvider_setUserContext(Target(countlyProvider), props),
             << Call("countly", "setUserContext", "", props) >>,
             PostHogProvider_register(Target(posthogProvider), props, "posthog" \notin fail),
             << Call("posthog", "register", "", props) >>)

\* getGlobalProperties that merges the stores of the active providers
getGlobalProperties_merged ==
    Merge(IF PostHogActive
          THEN PostHogProvider_getRegisteredProperties(Target(posthogProvider))
          ELSE EmptyObj,
          IF CountlyActive
          THEN CountlyProvider_getUserContext(Target(countlyProvider))
          ELSE EmptyObj)

getGlobalProperties ==
    IF CountlyActive THEN CountlyProvider_getUserContext(Target(countlyProvider))
    ELSE IF PostHogActive THEN PostHogProvider_getRegisteredProperties(Target(posthogProvider))
    ELSE EmptyObj

UnifiedAnalytics_clearGlobalProperties(fail) ==
    Dispatch("clearGlobalProperties", Undef, Undef,
             CountlyProvider_clearUserContext(Target(countlyProvider)),
             << Call("countly", "clearUserContext", "", EmptyObj) >>,
             PostHogProvider_clearRegisteredProperties(Target(posthogProvider),
                                                       "posthog" \notin fail),
             << Call("posthog", "clearRegisteredProperties", "", EmptyObj) >>)

\* Countly: current = getUserContext(); delete current[key]; setUserContext(current)
UnifiedAnalytics_removeGlobalProperty(key, fail) ==
    LET current == Delete(CountlyProvider_getUserContext(Target(countlyProvider)), key)
    IN Dispatch("removeGlobalProperty", Some(key), Undef,
                CountlyProvider_setUserContext(Target(countlyProvider), current),
                << Call("countly", "getUserContext", "", EmptyObj),
                   Call("countly", "setUserContext", "", current) >>,
                PostHogProvider_unregister(Target(posthogProvider), key,
                                           "posthog" \notin fail),
                << Call("posthog", "unregister", key, EmptyObj) >>)

UnifiedAnalytics_reset(fail) ==
    Dispatch("reset", Undef, Undef,
             CountlyProvider_reset(Target(countlyProvider), "countly" \notin fail),
             << Call("countly", "reset", "", EmptyObj) >>,
             PostHogProvider_reset(Target(posthogProvider), "posthog" \notin fail),
             << Call("posthog", "reset", "", EmptyObj) >>)

\* the application shuts PostHog down through the Proxy it obtained from the
\* posthog getter (null unless the provider is active)
PostHog_shutdown(sdkOk) ==
    LET px == Target(posthogProvider)
        cs == IF PostHogProvider_shutdown_awaits(px, sdkOk)
              THEN {Suspended(posthogProvider[1], px.gen, "shutdown")} ELSE {}
    IN /\ PostHogActive
       /\ CanSuspend(cs)
       /\ Relay("posthog.shutdown", Undef, Undef,
                Eff(Target(countlyProvider), << >>), << >>,
                PostHogProvider_shutdown(px, sdkOk),
                << Call("posthog", "shutdown", "", EmptyObj) >>)
       /\ awaited' = Suspend(cs)
       /\ UNCHANGED << env, navVars, currentPlatform, initialized, config,
                       countlyProvider, posthogProvider, trackScreenViews, tasks >>

\* the SDK's shutdown promise awaited by the native Adapter settles and the
\* suspended shutdown() runs to its end, on the Adapter it was called on
PostHog_shutdown_resume(c, ok) ==
    /\ BagIn(c, awaited) /\ c.fn = "shutdown"
    /\ proxies' = IF proxies[c.id].gen = c.gen
                  THEN [proxies EXCEPT ![c.id] = PostHogProvider_shutdown_resume(@, ok)]
                  ELSE proxies
    /\ awaited' = awaited (-) SetToBag({c})
    /\ last' = Outcome("posthog.shutdown.resolved", "none", Undef,
                       Some([p |-> "posthog", id |-> c.id]), << >>, << >>)
    /\ UNCHANGED << env, navVars, currentPlatform, initialized, config,
                    countlyProvider, posthogProvider, trackScreenViews, tasks >>

----------------------------------------------------------------------------
\* Events and screen views

\* Countly trackEvent whose stored context overrides the event's properties
CountlyProvider_trackEvent_contextWins(px, name, props, sdkOk) ==
    IF ~Adapter_ready(px) THEN Eff(px, << >>)
    ELSE Eff(px, << SdkCall("countly",
                            IF px.impl = "web" THEN "add_event" ELSE "recordEvent",
                            name, stringifyProperties(Merge(props, px.store)), sdkOk) >>)

\* Countly trackEvent: segments are the stringified merge of the user context
\* and the event's properties; web calls add_event, native recordEvent
CountlyProvider_trackEvent(px, name, props, sdkOk) ==
    IF ~Adapter_ready(px) THEN Eff(px, << >>)
    ELSE Eff(px, << SdkCall("countly",
                            IF px.impl = "web" THEN "add_event" ELSE "recordEvent",
                            name, stringifyProperties(Merge(px.store, props)), sdkOk) >>)

\* Countly trackView: web calls track_pageview, native recordView
CountlyProvider_trackView(px, name, props, sdkOk) ==
    IF ~Adapter_ready(px) THEN Eff(px, << >>)
    ELSE Eff(px, << SdkCall("countly",
                            IF px.impl = "web" THEN "track_pageview" ELSE "recordView",
                            name, stringifyProperties(Merge(px.store, props)), sdkOk) >>)

\* PostHog trackEvent: posthogClient.capture(name, properties || {})
PostHogProvider_trackEvent(px, name, props, sdkOk) ==
    IF ~Adapter_ready(px) THEN Eff(px, << >>)
    ELSE Eff(px, << SdkCall("posthog", "capture", name, props, sdkOk) >>)

\* PostHog trackView: web captures $pageview with $current_url, native calls
\* screen(viewName, properties)
PostHogProvider_trackView(px, name, props, sdkOk) ==
    IF ~Adapter_ready(px) THEN Eff(px, << >>)
    ELSE IF px.impl = "web"
    THEN Eff(px, << SdkCall("posthog", "capture", "$pageview",
                            Merge([k \in {"$current_url"} |-> name], props), sdkOk) >>)
    ELSE Eff(px, << SdkCall("posthog", "screen", name, props, sdkOk) >>)

\* trackView that ignores the screen-view switch
ViewRelay_ungated(op, arg, name, fail) ==
    Relay(op, arg, << name >>,
          CountlyProvider_trackView(Target(countlyProvider), name, EmptyObj,
                                    "countly" \notin fail),
          << Call("countly", "trackView", name, EmptyObj) >>,
          PostHogProvider_trackView(Target(posthogProvider), name, EmptyObj,
                                    "posthog" \notin fail),
          << Call("posthog", "trackView", name, EmptyObj) >>)

\* UnifiedAnalytics.trackView(name) as part of the call op: nothing happens
\* while _trackScreenViews is false, otherwise every active provider gets the
\* view. The outcome's ret lists the view names that got past the switch.
ViewRelay(op, arg, name, fail) ==
    IF ~trackScreenViews
    THEN /\ proxies' = proxies
         /\ last' = Outcome(op, "none", << >>, arg, << >>, << >>)
    ELSE Relay(op, arg, << name >>,
               CountlyProvider_trackView(Target(countlyProvider), name, EmptyObj,
                                         "countly" \notin fail),
               << Call("countly", "trackView", name, EmptyObj) >>,
               PostHogProvider_trackView(Target(posthogProvider), name, EmptyObj,
                                         "posthog" \notin fail),
               << Call("posthog", "trackView", name, EmptyObj) >>)

UnifiedAnalytics_trackView(name, fail) ==
    /\ ViewRelay("trackView", Some(name), name, fail)
    /\ UNCHANGED << env, awaited, navVars, currentPlatform, initialized, config,
                    countlyProvider, posthogProvider, trackScreenViews, tasks >>

UnifiedAnalytics_setTrackScreenViews(enabled) ==
    /\ trackScreenViews' = enabled
    /\ last' = Outcome("setTrackScreenViews", "none", Undef, Some(enabled), << >>, << >>)
    /\ UNCHANGED << env, awaited, navVars, currentPlatform, initialized, config,
                    countlyProvider, posthogProvider, proxies, tasks >>

\* this.screenViewOverrides.set(screenName, customName)
UnifiedAnalytics_setScreenViewOverride(screenName, customName) ==
    /\ screenViewOverrides' = Merge(screenViewOverrides, [k \in {screenName} |-> customName])
    /\ last' = Outcome("setScreenViewOverride", "none", Undef, Some(screenName), << >>, << >>)
    /\ UNCHANGED << env, awaited, routeNameRef, previousPath, currentPlatform, initialized, config,
                    countlyProvider, posthogProvider, trackScreenViews, proxies, tasks >>

UnifiedAnalytics_clearScreenViewOverride(screenName) ==
    /\ screenViewOverrides' = Delete(screenViewOverrides, screenName)
    /\ last' = Outcome("clearScreenViewOverride", "none", Undef, Some(screenName), << >>, << >>)
    /\ UNCHANGED << env, awaited, routeNameRef, previousPath, currentPlatform, initialized, config,
                    countlyProvider, posthogProvider, trackScreenViews, proxies, tasks >>

----------------------------------------------------------------------------
\* Navigation handlers. cur is what navigationRef.current?.getCurrentRoute()?.name
\* yields when the handler runs (Undef for undefined), url the argument of
\* onRouteChange.

\* this.screenViewOverrides.get(name)
Override(name) ==
    IF name \in DOMAIN screenViewOverrides THEN Some(screenViewOverrides[name]) ELSE Undef

\* the shared body of both handlers once a transition to name is accepted: a
\* truthy override is tracked in place of the name and then deleted
TrackTransition(op, arg, name, fail) ==
    IF TruthyStr(Override(name))
    THEN /\ ViewRelay(op, arg, Override(name)[1], fail)
         /\ screenViewOverrides' = Delete(screenViewOverrides, name)
    ELSE /\ ViewRelay(op, arg, name, fail)
         /\ screenViewOverrides' = screenViewOverrides

\* onReady of createNavigationHandlers
Navigation_onReady(cur) ==
    /\ routeNameRef' = IF TruthyStr(cur) THEN cur ELSE Undef
    /\ last' = Outcome("onReady", "none", Undef, cur, << >>, << >>)
    /\ UNCHANGED << env, awaited, screenViewOverrides, previousPath, currentPlatform, initialized,
                    config, countlyProvider, posthogProvider, trackScreenViews, proxies,
                    tasks >>

\* onStateChange of createNavigationHandlers
Navigation_onStateChange(cur, fail) ==
    /\ IF routeNameRef # cur /\ TruthyStr(cur)
       THEN TrackTransition("onStateChange", cur, cur[1], fail)
       ELSE /\ last' = Outcome("onStateChange", "none", << >>, cur, << >>, << >>)
            /\ UNCHANGED << proxies, screenViewOverrides >>
    /\ routeNameRef' = cur
    /\ UNCHANGED << env, awaited, previousPath, currentPlatform, initialized, config,
                    countlyProvider, posthogProvider, trackScreenViews, tasks >>

\* handler objects createWebNavigationHandlers() makes at most in a checked
\* behaviour
MaxHandlers == 2

\* createWebNavigationHandlers(): a new handler object whose closure holds
\* its own previousPath, null at first
UnifiedAnalytics_createWebNavigationHandlers ==
    /\ Len(previousPath) < MaxHandlers
    /\ previousPath' = Append(previousPath, Undef)
    /\ last' = Outcome("createWebNavigationHandlers", "none", Some(Len(previousPath) + 1),
                       Undef, << >>, << >>)
    /\ UNCHANGED << env, awaited, screenViewOverrides, routeNameRef, currentPlatform,
                    initialized, config, countlyProvider, posthogProvider, trackScreenViews,
                    proxies, tasks >>

\* what a call of onRouteChange(url) on handler object h is recorded with
RouteArg(h, url) == Some([handler |-> h, url |-> url])

\* onRouteChange that does not compare the URL with the previous one
Navigation_onRouteChange_always(h, url, fail) ==
    /\ h \in DOMAIN previousPath
    /\ IF TruthyStr(url)
       THEN /\ TrackTransition("onRouteChange", RouteArg(h, url), url[1], fail)
            /\ previousPath' = [previousPath EXCEPT ![h] = url]
       ELSE /\ last' = Outcome("onRouteChange", "none", << >>, RouteArg(h, url), << >>, << >>)
            /\ UNCHANGED << proxies, screenViewOverrides, previousPath >>
    /\ UNCHANGED << env, awaited, routeNameRef, currentPlatform, initialized, config,
                    countlyProvider, posthogProvider, trackScreenViews, tasks >>

\* onRouteChange of the handler object h that createWebNavigationHandlers
\* returned; the previousPath of h moves only when the transition is accepted
Navigation_onRouteChange(h, url, fail) ==
    /\ h \in DOMAIN previousPath
    /\ IF TruthyStr(url) /\ url # previousPath[h]
       THEN /\ TrackTransition("onRouteChange", RouteArg(h, url), url[1], fail)
            /\ previousPath' = [previousPath EXCEPT ![h] = url]
       ELSE /\ last' = Outcome("onRouteChange", "none", << >>, RouteArg(h, url), << >>, << >>)
            /\ UNCHANGED << proxies, screenViewOverrides, previousPath >>
    /\ UNCHANGED << env, awaited, routeNameRef, currentPlatform, initialized, config,
                    countlyProvider, posthogProvider, trackScreenViews, tasks >>

----------------------------------------------------------------------------
\* Feature flags. sdkVal is what the PostHog SDK answers when asked, sdkOk
\* whether the SDK call (on native onFeatureFlags: the callback) returns
\* rather than throws. The flag's key has no part in what the code does.

\* answers of the PostHog SDK about one flag, and about all flags
FlagVals == {"<undefined>", "<null>", "<true>", "<false>", "true"}
FlagMaps == {Undef} \cup {Some(o) : o \in Objs({"f"}, {"<true>"})}

\* PostHog getFeatureFlag through the Proxy: this._impl?.getFeatureFlag(key) ?? undefined
PostHogProvider_getFeatureFlag(px, sdkVal, sdkOk) ==
    IF ~Adapter_ready(px) \/ ~sdkOk \/ sdkVal = "<null>" THEN "<undefined>" ELSE sdkVal

\* PostHog isFeatureEnabled: web asks the SDK's isFeatureEnabled and defaults
\* to false, native tests the flag against true and 'true'
PostHogProvider_isFeatureEnabled(px, sdkVal, sdkOk) ==
    IF ~Adapter_ready(px) \/ ~sdkOk THEN "<false>"
    ELSE IF px.impl = "web"
    THEN (IF sdkVal \in {"<null>", "<undefined>"} THEN "<false>" ELSE sdkVal)
    ELSE (IF sdkVal \in {"<true>", "true"} THEN "<true>" ELSE "<false>")

\* PostHog getAllFeatureFlags: the SDK's mapping, {} when it has none or throws
PostHogProvider_getAllFeatureFlags(px, sdkFlags, sdkOk) ==
    IF px.impl = "none" \/ ~px.client \/ ~sdkOk \/ sdkFlags = Undef THEN EmptyObj
    ELSE sdkFlags[1]

\* PostHog onFeatureFlags: the callback is stored, then web hands it to the SDK
\* and native calls it with the current flags; neither is guarded
PostHogProvider_onFeatureFlags(px) ==
    IF px.impl = "none" THEN px
    ELSE IF px.impl = "web" /\ ~px.ainit THEN px
    ELSE [px EXCEPT !.callback = TRUE]

\* a feature-flag read: the Orchestrator's outcome, nothing else changes
FlagRead(op, err, ret, calls, sdk) ==
    /\ last' = Outcome(op, err, ret, Undef, calls, sdk)
    /\ UNCHANGED << env, awaited, navVars, currentPlatform, initialized, config, countlyProvider,
                    posthogProvider, trackScreenViews, proxies, tasks >>

\* getFeatureFlag: without an active PostHog the code reads this.config.debug,
\* a TypeError while this.config is null
UnifiedAnalytics_getFeatureFlag(sdkVal, sdkOk) ==
    IF PostHogActive
    THEN FlagRead("getFeatureFlag", "none",
                  Some(PostHogProvider_getFeatureFlag(Target(posthogProvider), sdkVal, sdkOk)),
                  << Call("posthog", "getFeatureFlag", "", EmptyObj) >>,
                  << SdkCall("posthog", "getFeatureFlag", "", EmptyObj, sdkOk) >>)
    ELSE IF config = Undef
    THEN FlagRead("getFeatureFlag", "TypeError", Undef, << >>, << >>)
    ELSE FlagRead("getFeatureFlag", "none", Some("<null>"), << >>, << >>)

UnifiedAnalytics_isFeatureEnabled(sdkVal, sdkOk) ==
    IF PostHogActive
    THEN FlagRead("isFeatureEnabled", "none",
                  Some(PostHogProvider_isFeatureEnabled(Target(posthogProvider), sdkVal, sdkOk)),
                  << Call("posthog", "isFeatureEnabled", "", EmptyObj) >>,
                  << SdkCall("posthog",
                             IF Target(posthogProvider).impl = "web"
                             THEN "isFeatureEnabled" ELSE "getFeatureFlag",
                             "", EmptyObj, sdkOk) >>)
    ELSE FlagRead("isFeatureEnabled", "none", Some("<false>"), << >>, << >>)

UnifiedAnalytics_getAllFeatureFlags(sdkFlags, sdkOk) ==
    IF PostHogActive
    THEN FlagRead("getAllFeatureFlags", "none",
                  Some(PostHogProvider_getAllFeatureFlags(Target(posthogProvider),
                                                          sdkFlags, sdkOk)),
                  << Call("posthog", "getAllFeatureFlags", "", EmptyObj) >>,
                  << SdkCall("posthog", "getFeatureFlags", "", EmptyObj, sdkOk) >>)
    ELSE FlagRead("getAllFeatureFlags", "none", Some(EmptyObj), << >>, << >>)

\* onFeatureFlagsChange: with PostHog active the result of the Proxy's
\* onFeatureFlags, which returns nothing, and an error of the SDK (web) or of
\* the callback (native) reaches the caller; otherwise a no-op function
UnifiedAnalytics_onFeatureFlagsChange(sdkOk) ==
    IF PostHogActive
    THEN /\ proxies' = [proxies EXCEPT ![posthogProvider[1]] = PostHogProvider_onFeatureFlags(@)]
         /\ last' = Outcome("onFeatureFlagsChange", IF sdkOk THEN "none" ELSE "Error",
                            IF sdkOk THEN Some("<undefined>") ELSE Undef, Undef,
                            << Call("posthog", "onFeatureFlags", "", EmptyObj) >>,
                            << SdkCall("posthog",
                                       IF Target(posthogProvider).impl = "web"
                                       THEN "onFeatureFlags" ELSE "callback",
                                       "", EmptyObj, sdkOk) >>)
         /\ UNCHANGED << env, awaited, navVars, currentPlatform, initialized, config,
                         countlyProvider, posthogProvider, trackScreenViews, tasks >>
    ELSE FlagRead("onFeatureFlagsChange", "none", Some("<function>"), << >>, << >>)

----------------------------------------------------------------------------
\* Error tracking. The argument of trackError is an Error object with message
\* text, or the string text.

\* JavaScript truthiness of a value
Truthy(v) == v \notin {"", "<false>", "<null>", "<undefined>"}

\* o[k], undefined when the key is absent
Get(o, k) == IF k \in DOMAIN o THEN o[k] ELSE "<undefined>"

\* a || b
Or(a, b) == IF Truthy(a) THEN a ELSE b

\* error.message || String(error): String() of a string is the string, of an
\* Error with an empty message its name
Error_message(e) ==
    IF e.kind = "string" THEN e.text
    ELSE IF e.text # "" THEN e.text
    ELSE "Error"

\* error.name || "Error" and error.stack || ""
Error_name(e) == "Error"
Error_stack(e) == IF e.kind = "Error" THEN "stack" ELSE ""

\* errorData of trackError: the error's fields under the spread metadata
errorData(e, metadata) ==
    Merge([k \in {"message", "name", "stack"} |->
              IF k = "message" THEN Error_message(e)
              ELSE IF k = "name" THEN Error_name(e) ELSE Error_stack(e)],
          metadata)

\* the options object handed to Countly's trackError
CountlyErrorOptions(e, metadata) ==
    [message |-> errorData(e, metadata)["message"],
     stack |-> errorData(e, metadata)["stack"],
     fatal |-> Or(Get(metadata, "fatal"), "<false>"),
     segments |-> metadata]

\* the properties of the $exception event handed to PostHog's capture
PostHogErrorProps(e, metadata) ==
    Merge([k \in {"$exception_message", "$exception_type", "$exception_stack_trace_raw"} |->
              IF k = "$exception_message" THEN errorData(e, metadata)["message"]
              ELSE IF k = "$exception_type" THEN errorData(e, metadata)["name"]
              ELSE errorData(e, metadata)["stack"]],
          metadata)

\* !v
Not(v) == IF Truthy(v) THEN "<false>" ELSE "<true>"

\* the exception report of Countly trackError: stack || message, the nonfatal
\* argument !fatal, and the stringified segments
CountlyErrorReport(web, options, sdkOk) ==
    [p |-> "countly", fn |-> IF web THEN "log_error" ELSE "logException",
     name |-> Or(options.stack, options.message),
     nonfatal |-> Not(options.fatal),
     props |-> stringifyProperties(options.segments), ok |-> sdkOk]

\* Countly trackError that reports the exception whatever options.fatal is
CountlyProvider_trackError_alwaysReports(px, options, sdkOk) ==
    LET web == px.impl = "web"
        logged == SdkCall("countly", IF web THEN "add_log" ELSE "addCrashLog",
                          options.message, EmptyObj, sdkOk)
    IN IF ~Adapter_ready(px) THEN Eff(px, << >>)
       ELSE IF sdkOk THEN Eff(px, << logged, CountlyErrorReport(web, options, sdkOk) >>)
       ELSE Eff(px, << logged >>)

\* Countly trackError: the message goes to the crash log; a fatal error is also
\* reported with stack || message and the stringified segments (web add_log and
\* log_error, native addCrashLog and logException). An SDK error ends the block.
CountlyProvider_trackError(px, options, sdkOk) ==
    LET web == px.impl = "web"
        logged == SdkCall("countly", IF web THEN "add_log" ELSE "addCrashLog",
                          options.message, EmptyObj, sdkOk)
        reported == CountlyErrorReport(web, options, sdkOk)
    IN IF ~Adapter_ready(px) THEN Eff(px, << >>)
       ELSE IF sdkOk /\ Truthy(options.fatal) THEN Eff(px, << logged, reported >>)
       ELSE Eff(px, << logged >>)

\* PostHog capture through the Proxy:
\*   this._impl?.capture?.(e, p) ?? this._impl?.trackEvent(e, p)
\* the Adapter's capture is trackEvent and returns undefined, so trackEvent
\* runs a second time
PostHogProvider_capture(px, name, props, sdkOk) ==
    IF px.impl = "none" THEN Eff(px, << >>)
    ELSE Eff(px, PostHogProvider_trackEvent(px, name, props, sdkOk).sdk
                 \o PostHogProvider_trackEvent(px, name, props, sdkOk).sdk)

\* PostHog screen through the Proxy:
\*   this._impl?.screen?.(n, p) ?? this._impl?.trackView(n, p)
\* the Adapter's screen is trackView and returns undefined, so trackView runs
\* a second time
PostHogProvider_screen(px, name, props, sdkOk) ==
    IF px.impl = "none" THEN Eff(px, << >>)
    ELSE Eff(px, PostHogProvider_trackView(px, name, props, sdkOk).sdk
                 \o PostHogProvider_trackView(px, name, props, sdkOk).sdk)

\* the application calls trackEvent / trackView on the Proxy it obtained from
\* the countly getter (undefined unless the provider is active)
Countly_trackEvent(name, props, sdkOk) ==
    /\ CountlyActive
    /\ Dispatch("countly.trackEvent", Some([name |-> name, props |-> props]), Undef,
                CountlyProvider_trackEvent(Target(countlyProvider), name, props, sdkOk),
                << Call("countly", "trackEvent", name, props) >>,
                Eff(Target(posthogProvider), << >>), << >>)

Countly_trackView(name, props, sdkOk) ==
    /\ CountlyActive
    /\ Dispatch("countly.trackView", Some([name |-> name, props |-> props]), Undef,
                CountlyProvider_trackView(Target(countlyProvider), name, props, sdkOk),
                << Call("countly", "trackView", name, props) >>,
                Eff(Target(posthogProvider), << >>), << >>)

\* the application calls capture / screen on the Proxy it obtained from the
\* posthog getter (undefined unless the provider is active)
PostHog_capture(name, props, sdkOk) ==
    /\ PostHogActive
    /\ Dispatch("posthog.capture", Some([name |-> name, props |-> props]), Undef,
                Eff(Target(countlyProvider), << >>), << >>,
                PostHogProvider_capture(Target(posthogProvider), name, props, sdkOk),
                << Call("posthog", "capture", name, props) >>)

PostHog_screen(name, props, sdkOk) ==
    /\ PostHogActive
    /\ Dispatch("posthog.screen", Some([name |-> name, props |-> props]), Undef,
                Eff(Target(countlyProvider), << >>), << >>,
                PostHogProvider_screen(Target(posthogProvider), name, props, sdkOk),
                << Call("posthog", "screen", name, props) >>)

UnifiedAnalytics_trackError(e, metadata, fail) ==
    Dispatch("trackError", Some([error |-> e, metadata |-> metadata]), Undef,
             CountlyProvider_trackError(Target(countlyProvider),
                                        CountlyErrorOptions(e, metadata),
                                        "countly" \notin fail),
             << Call("countly", "trackError", "", CountlyErrorOptions(e, metadata)) >>,
             PostHogProvider_capture(Target(posthogProvider), "$exception",
                                     PostHogErrorProps(e, metadata),
                                     "posthog" \notin fail),
             << Call("posthog", "capture", "$exception", PostHogErrorProps(e, metadata)) >>)

----------------------------------------------------------------------------
\* Proxy.init called by the application on a Proxy it obtained from the
\* countly / posthog getter. The call is suspended at the same two awaits as
\* inside init(); its slot holds the Proxy it was called on.
\*   pc = "proxy.import"  awaiting the dynamic import of the Adapter module
\*   pc = "proxy.sdk", ...  suspended at one of the awaits of Adapter.init
\*                          ("proxy." before the name of the phase)

\* Adapter instances one Proxy binds at most in a checked behaviour
MaxAdapters == 3

\* Proxy.init(config) up to its first await: reads the platform and starts
\* the import, whatever the Proxy has bound already and whether or not its
\* Adapter is initialized. The application calls it on the Proxy object the
\* Orchestrator holds for p, which it keeps once it has it.
Proxy_init(p, block) ==
    LET ref == IF p = "countly" THEN countlyProvider ELSE posthogProvider
    IN /\ ref # Undef
       /\ FreeTasks # {}
       /\ proxies[ref[1]].gen < MaxAdapters
       /\ currentPlatform' = getPlatformCache(currentPlatform, env)
       /\ tasks' = [tasks EXCEPT ![FirstFree] =
                       [pc |-> "proxy.import", prov |-> p, cfg |-> Some(block),
                        variant |-> getPlatform(currentPlatform, env), gen |-> 0,
                        target |-> ref[1]]]
       /\ last' = Outcome("proxy.init.await", "none", Undef, Some(block), << >>, << >>)
       /\ UNCHANGED << env, awaited, navVars, initialized, config, countlyProvider, posthogProvider,
                       trackScreenViews, proxies >>

ProxyPc(phase) == "proxy." \o phase
ProxyPcs == {ProxyPc(phase) : phase \in AdapterPhases}
PhaseOf(pc) == CHOOSE phase \in AdapterPhases : pc = ProxyPc(phase)

\* the import settles and Proxy.init binds a new Adapter (a method of the
\* replaced Adapter that is still suspended stays suspended); an import error
\* rejects the promise the application holds
Proxy_init_import(t, ok) ==
    /\ tasks[t].pc = "proxy.import"
    /\ IF ok
       THEN /\ proxies' = [proxies EXCEPT ![tasks[t].target] =
                               Proxy_bind(@, tasks[t].variant, tasks[t].cfg[1])]
            /\ tasks' = [tasks EXCEPT ![t].pc = ProxyPc("sdk"),
                                      ![t].gen = proxies[tasks[t].target].gen + 1]
            /\ last' = Done("proxy.init.await")
       ELSE /\ tasks' = [tasks EXCEPT ![t] = IdleTask]
            /\ last' = Outcome("proxy.init.rejected", "Error", Undef, Undef, << >>, << >>)
            /\ UNCHANGED proxies
    /\ UNCHANGED << env, awaited, navVars, currentPlatform, initialized, config, countlyProvider,
                    posthogProvider, trackScreenViews >>

\* an await of Adapter.init settles: Adapter.init runs to its next await, or
\* the Adapter this call bound is initialized and the promise the application
\* holds resolves, or Adapter.init rethrows and the promise rejects
Proxy_init_sdk(t, r) ==
    /\ tasks[t].pc \in ProxyPcs
    /\ r \in AwaitResultsOf(tasks[t].prov, tasks[t].variant, PhaseOf(tasks[t].pc))
    /\ LET id == tasks[t].target
           e == Adapter_init(proxies[id], tasks[t].prov, tasks[t].variant,
                             PhaseOf(tasks[t].pc), r)
       IN /\ proxies' = IF proxies[id].gen = tasks[t].gen
                         THEN [proxies EXCEPT ![id] = e.px] ELSE proxies
          /\ tasks' = IF e.next \in AdapterPhases
                      THEN [tasks EXCEPT ![t].pc = ProxyPc(e.next)]
                      ELSE [tasks EXCEPT ![t] = IdleTask]
          /\ last' = IF e.next \in AdapterPhases
                     THEN Outcome("proxy.init.await", "none", Undef, Undef, << >>, e.sdk)
                     ELSE IF e.next = "failed"
                     THEN Outcome("proxy.init.rejected", "Error", Undef, Undef, << >>, e.sdk)
                     ELSE Outcome("proxy.init.resolved", "none", Undef, Undef, << >>, e.sdk)
    /\ UNCHANGED << env, awaited, navVars, currentPlatform, initialized, config, countlyProvider,
                    posthogProvider, trackScreenViews >>

----------------------------------------------------------------------------
\* The Platform Resolver called by the application

\* setPlatform that stores whatever it is given
Platform_setPlatform_unchecked(platform) ==
    /\ currentPlatform' = Some(platform)
    /\ last' = Outcome("setPlatform", "none", Undef, Some(platform), << >>, << >>)
    /\ UNCHANGED << env, awaited, navVars, initialized, config, countlyProvider, posthogProvider,
                    trackScreenViews, proxies, tasks >>

\* setPlatform(platform): throws unless platform is 'web' or 'native',
\* otherwise assigns currentPlatform
Platform_setPlatform(platform) ==
    /\ IF setPlatformThrows(platform)
       THEN /\ last' = Outcome("setPlatform", "InvalidPlatform", Undef, Some(platform),
                               << >>, << >>)
            /\ UNCHANGED currentPlatform
       ELSE /\ currentPlatform' = Some(platform)
            /\ last' = Outcome("setPlatform", "none", Undef, Some(platform), << >>, << >>)
    /\ UNCHANGED << env, awaited, navVars, initialized, config, countlyProvider, posthogProvider,
                    trackScreenViews, proxies, tasks >>

\* getPlatform(): detects and caches the platform when none is stored, and
\* returns the stored one
Platform_getPlatform ==
    /\ currentPlatform' = getPlatformCache(currentPlatform, env)
    /\ last' = Outcome("getPlatform", "none", Some(getPlatform(currentPlatform, env)), Undef,
                       << >>, << >>)
    /\ UNCHANGED << env, awaited, navVars, initialized, config, countlyProvider, posthogProvider,
                    trackScreenViews, proxies, tasks >>

----------------------------------------------------------------------------
\* Timed events (Countly only)

\* Countly startTimedEvent: web start_event(name), native events.startEvent(name)
CountlyProvider_startTimedEvent(px, name, sdkOk) ==
    IF ~Adapter_ready(px) THEN Eff(px, << >>)
    ELSE Eff(px, << SdkCall("countly",
                            IF px.impl = "web" THEN "start_event" ELSE "startEvent",
                            name, EmptyObj, sdkOk) >>)

\* Countly endTimedEvent: the segmentation is stringifyProperties(segments),
\* web end_event({key, segmentation}), native events.endEvent(name, props)
CountlyProvider_endTimedEvent(px, name, segments, sdkOk) ==
    IF ~Adapter_ready(px) THEN Eff(px, << >>)
    ELSE Eff(px, << SdkCall("countly",
                            IF px.impl = "web" THEN "end_event" ELSE "endEvent",
                            name, stringifyProperties(segments), sdkOk) >>)

\* startTimer / endTimer reach the Countly Proxy only; for PostHog the
\* Orchestrator writes a log line at most
UnifiedAnalytics_startTimer(eventName, fail) ==
    Dispatch("startTimer", Some([name |-> eventName, props |-> EmptyObj]), Undef,
             CountlyProvider_startTimedEvent(Target(countlyProvider), eventName,
                                             "countly" \notin fail),
             << Call("countly", "startTimedEvent", eventName, EmptyObj) >>,
             Eff(Target(posthogProvider), << >>), << >>)

UnifiedAnalytics_endTimer(eventName, properties, fail) ==
    Dispatch("endTimer", Some([name |-> eventName, props |-> properties]), Undef,
             CountlyProvider_endTimedEvent(Target(countlyProvider), eventName, properties,
                                           "countly" \notin fail),
             << Call("countly", "endTimedEvent", eventName, properties) >>,
             Eff(Target(posthogProvider), << >>), << >>)

----------------------------------------------------------------------------
\* Events and users through the unified API

\* the custom fields Countly's identify builds from properties that are not
\* profile fields: { user_id: userId } overwritten by the stringified properties
CountlyCustomFields(userId, props) ==
    Merge([k \in {"user_id"} |-> userId], [k \in DOMAIN props |-> safeString(props[k])])

\* Countly identify: web sends user_details; native first changes the device id
\* (which catches its own SDK error), then sets and saves the user data
CountlyProvider_identify(px, userId, props, sdkOk) ==
    IF ~Adapter_ready(px) THEN Eff(px, << >>)
    ELSE IF px.impl = "web"
    THEN Eff(px, << SdkCall("countly", "user_details", userId,
                            CountlyCustomFields(userId, props), sdkOk) >>)
    ELSE Eff(px, << SdkCall("countly", "changeDeviceId", userId, EmptyObj, sdkOk),
                    SdkCall("countly", "userDataBulk.setUserProperties", userId,
                            CountlyCustomFields(userId, props), sdkOk) >>
                 \o (IF sdkOk
                     THEN << SdkCall("countly", "userDataBulk.save", "", EmptyObj, TRUE) >>
                     ELSE << >>))

\* Countly setUserProperties: every value stringified; web sends one
\* user_details, native sets each property and saves
CountlyProvider_setUserProperties(px, props, sdkOk) ==
    LET custom == [k \in DOMAIN props |-> safeString(props[k])]
    IN IF ~Adapter_ready(px) THEN Eff(px, << >>)
       ELSE IF px.impl = "web"
       THEN Eff(px, << SdkCall("countly", "user_details", "", custom, sdkOk) >>)
       ELSE IF props # EmptyObj
       THEN Eff(px, << SdkCall("countly", "userDataBulk.setProperty", "", custom, sdkOk) >>
                    \o (IF sdkOk
                        THEN << SdkCall("countly", "userDataBulk.save", "", EmptyObj, TRUE) >>
                        ELSE << >>))
       ELSE Eff(px, << SdkCall("countly", "userDataBulk.save", "", EmptyObj, sdkOk) >>)

PostHogProvider_identify(px, userId, props, sdkOk) ==
    IF ~Adapter_ready(px) THEN Eff(px, << >>)
    ELSE Eff(px, << SdkCall("posthog", "identify", userId, props, sdkOk) >>)

PostHogProvider_setUserProperties(px, props, sdkOk) ==
    IF ~Adapter_ready(px) THEN Eff(px, << >>)
    ELSE Eff(px, << SdkCall("posthog", "setPersonProperties", "", props, sdkOk) >>)

\* trackEvent -> trackEventToProviders
UnifiedAnalytics_trackEvent(name, props, fail) ==
    Dispatch("trackEvent", Some([name |-> name, props |-> props]), Undef,
             CountlyProvider_trackEvent(Target(countlyProvider), name, props,
                                        "countly" \notin fail),
             << Call("countly", "trackEvent", name, props) >>,
             PostHogProvider_trackEvent(Target(posthogProvider), name, props,
                                        "posthog" \notin fail),
             << Call("posthog", "trackEvent", name, props) >>)

UnifiedAnalytics_identify(userId, props, fail) ==
    Dispatch("identify", Some([name |-> userId, props |-> props]), Undef,
             CountlyProvider_identify(Target(countlyProvider), userId, props,
                                      "countly" \notin fail),
             << Call("countly", "identify", userId, props) >>,
             PostHogProvider_identify(Target(posthogProvider), userId, props,
                                      "posthog" \notin fail),
             << Call("posthog", "identify", userId, props) >>)

UnifiedAnalytics_setUserProperties(props, fail) ==
    Dispatch("setUserProperties", Some([name |-> "", props |-> props]), Undef,
             CountlyProvider_setUserProperties(Target(countlyProvider), props,
                                               "countly" \notin fail),
             << Call("countly", "setUserProperties", "", props) >>,
             PostHogProvider_setUserProperties(Target(posthogProvider), props,
                                               "posthog" \notin fail),
             << Call("posthog", "setUserProperties", "", props) >>)

----------------------------------------------------------------------------
\* The Proxy's delegated methods called directly on a Proxy object, whatever
\* the state of its Adapter: this._impl?.method(...) ?? default

\* Countly getDeviceId without the check that the Adapter is initialized
CountlyProvider_getDeviceId_unguarded(px, sdkVal, sdkOk) ==
    IF ~sdkOk THEN "<null>" ELSE sdkVal

\* Countly getDeviceId, the value its promise is resolved with: null without
\* an initialized Adapter or when the SDK call throws; the web SDK's answer;
\* on native the promise is pending ("<pending>") while the Adapter awaits
\* Countly.getCurrentDeviceId()
CountlyProvider_getDeviceId(px, sdkVal, sdkOk) ==
    IF ~Adapter_ready(px) \/ ~sdkOk THEN "<null>"
    ELSE IF px.impl = "native" THEN "<pending>"
    ELSE sdkVal

\* the native Adapter's getDeviceId() is suspended at
\* await Countly.getCurrentDeviceId()
CountlyProvider_getDeviceId_awaits(px, sdkOk) ==
    Adapter_ready(px) /\ px.impl = "native" /\ sdkOk

\* after the await: the SDK's answer, or null from the catch block when the
\* SDK's promise has rejected
CountlyProvider_getDeviceId_resume(sdkVal, ok) == IF ok THEN sdkVal ELSE "<null>"

\* PostHog getDistinctId: the SDK's id || null
PostHogProvider_getDistinctId(px, sdkVal, sdkOk) ==
    IF ~Adapter_ready(px) \/ ~sdkOk \/ sdkVal \in {"", "<undefined>", "<null>"}
    THEN "<null>" ELSE sdkVal

\* what the SDKs answer in the calls below
SdkIds == {"d1", ""}
SdkFlag == "<true>"
SdkFlags == Some([k \in {"f"} |-> "<true>"])
CallProps == [k \in {"k1"} |-> "a"]
CallError == [message |-> "boom", stack |-> "", fatal |-> "<true>", segments |-> EmptyObj]

CountlyOps ==
    {"proxy.isInitialized", "proxy.trackEvent", "proxy.trackView", "proxy.identify",
     "proxy.setUserProperties", "proxy.reset", "proxy.setUserContext",
     "proxy.getUserContext", "proxy.clearUserContext", "proxy.startTimedEvent",
     "proxy.endTimedEvent", "proxy.trackError", "proxy.getDeviceId"}

PostHogOps ==
    {"proxy.isInitialized", "proxy.trackEvent", "proxy.trackView", "proxy.identify",
     "proxy.setUserProperties", "proxy.reset", "proxy.register", "proxy.registerOnce",
     "proxy.getRegisteredProperties", "proxy.unregister",
     "proxy.clearRegisteredProperties", "proxy.getFeatureFlag",
     "proxy.isFeatureEnabled", "proxy.getAllFeatureFlags", "proxy.onFeatureFlags",
     "proxy.capture", "proxy.screen", "proxy.shutdown", "proxy.getDistinctId"}

ProxyOps(p) == IF p = "countly" THEN CountlyOps ELSE PostHogOps

\* a method's result: the Proxy afterwards, the SDK calls, the value returned
\* ("<undefined>" for a method without a return value) and the error thrown
Res(eff, ret) == [px |-> eff.px, sdk |-> eff.sdk, ret |-> ret, err |-> "none"]

CountlyProvider_call(op, px, id, ok) ==
    CASE op = "proxy.isInitialized" ->
            Res(Eff(px, << >>), IF Proxy_isInitialized(px) THEN "<true>" ELSE "<false>")
      [] op = "proxy.trackEvent" ->
            Res(CountlyProvider_trackEvent(px, "ev", CallProps, ok), "<undefined>")
      [] op = "proxy.trackView" ->
            Res(CountlyProvider_trackView(px, "Home", CallProps, ok), "<undefined>")
      [] op = "proxy.identify" ->
            Res(CountlyProvider_identify(px, "u1", CallProps, ok), "<undefined>")
      [] op = "proxy.setUserProperties" ->
            Res(CountlyProvider_setUserProperties(px, CallProps, ok), "<undefined>")
      [] op = "proxy.reset" -> Res(CountlyProvider_reset(px, ok), "<undefined>")
      [] op = "proxy.setUserContext" ->
            Res(CountlyProvider_setUserContext(px, CallProps), "<undefined>")
      [] op = "proxy.getUserContext" ->
            Res(Eff(px, << >>), CountlyProvider_getUserContext(px))
      [] op = "proxy.clearUserContext" ->
            Res(CountlyProvider_clearUserContext(px), "<undefined>")
      [] op = "proxy.startTimedEvent" ->
            Res(CountlyProvider_startTimedEvent(px, "ev", ok), "<undefined>")
      [] op = "proxy.endTimedEvent" ->
            Res(CountlyProvider_endTimedEvent(px, "ev", CallProps, ok), "<undefined>")
      [] op = "proxy.trackError" ->
            Res(CountlyProvider_trackError(px, CallError, ok), "<undefined>")
      [] op = "proxy.getDeviceId" ->
            Res(Eff(px, << >>), CountlyProvider_getDeviceId(px, id, ok))

PostHogProvider_call(op, px, id, ok) ==
    CASE op = "proxy.isInitialized" ->
            Res(Eff(px, << >>), IF Proxy_isInitialized(px) THEN "<true>" ELSE "<false>")
      [] op = "proxy.trackEvent" ->
            Res(PostHogProvider_trackEvent(px, "ev", CallProps, ok), "<undefined>")
      [] op = "proxy.trackView" ->
            Res(PostHogProvider_trackView(px, "Home", CallProps, ok), "<undefined>")
      [] op = "proxy.identify" ->
            Res(PostHogProvider_identify(px, "u1", CallProps, ok), "<undefined>")
      [] op = "proxy.setUserProperties" ->
            Res(PostHogProvider_setUserProperties(px, CallProps, ok), "<undefined>")
      [] op = "proxy.reset" -> Res(PostHogProvider_reset(px, ok), "<undefined>")
      [] op = "proxy.register" ->
            Res(PostHogProvider_register(px, CallProps, ok), "<undefined>")
      [] op = "proxy.registerOnce" ->
            Res(PostHogProvider_registerOnce(px, CallProps, ok), "<undefined>")
      [] op = "proxy.getRegisteredProperties" ->
            Res(Eff(px, << >>), PostHogProvider_getRegisteredProperties(px))
      [] op = "proxy.unregister" ->
            Res(PostHogProvider_unregister(px, "k1", ok), "<undefined>")
      [] op = "proxy.clearRegisteredProperties" ->
            Res(PostHogProvider_clearRegisteredProperties(px, ok), "<undefined>")
      [] op = "proxy.getFeatureFlag" ->
            Res(Eff(px, << >>), PostHogProvider_getFeatureFlag(px, SdkFlag, ok))
      [] op = "proxy.isFeatureEnabled" ->
            Res(Eff(px, << >>), PostHogProvider_isFeatureEnabled(px, SdkFlag, ok))
      [] op = "proxy.getAllFeatureFlags" ->
            Res(Eff(px, << >>), PostHogProvider_getAllFeatureFlags(px, SdkFlags, ok))
      [] op = "proxy.onFeatureFlags" ->
            [px |-> PostHogProvider_onFeatureFlags(px),
             sdk |-> IF Adapter_ready(px)
                     THEN << SdkCall("posthog",
                                     IF px.impl = "web" THEN "onFeatureFlags" ELSE "callback",
                                     "", EmptyObj, ok) >>
                     ELSE << >>,
             ret |-> "<undefined>",
             err |-> IF Adapter_ready(px) /\ ~ok THEN "Error" ELSE "none"]
      [] op = "proxy.capture" ->
            Res(PostHogProvider_capture(px, "ev", CallProps, ok), "<undefined>")
      [] op = "proxy.screen" ->
            Res(PostHogProvider_screen(px, "Home", CallProps, ok), "<undefined>")
      [] op = "proxy.shutdown" -> Res(PostHogProvider_shutdown(px, ok), "<undefined>")
      [] op = "proxy.getDistinctId" ->
            Res(Eff(px, << >>), PostHogProvider_getDistinctId(px, id, ok))

\* the application calls a delegated method on the Proxy the Orchestrator
\* holds for provider p (a Proxy exists from the moment init() constructs it)
Proxy_call(p, op, id, ok) ==
    LET ref == IF p = "countly" THEN countlyProvider ELSE posthogProvider
        px == proxies[ref[1]]
        r == IF p = "countly" THEN CountlyProvider_call(op, px, id, ok)
             ELSE PostHogProvider_call(op, px, id, ok)
        cs == IF p = "posthog" /\ op = "proxy.shutdown"
                 /\ PostHogProvider_shutdown_awaits(px, ok)
              THEN {Suspended(ref[1], px.gen, "shutdown")}
              ELSE IF p = "countly" /\ op = "proxy.getDeviceId"
                      /\ CountlyProvider_getDeviceId_awaits(px, ok)
              THEN {Suspended(ref[1], px.gen, "getDeviceId")}
              ELSE {}
    IN /\ ref # Undef
       /\ op \in ProxyOps(p)
       /\ CanSuspend(cs)
       /\ proxies' = [proxies EXCEPT ![ref[1]] = r.px]
       /\ awaited' = Suspend(cs)
       /\ last' = Outcome(op, r.err, IF r.err = "none" THEN Some(r.ret) ELSE Undef,
                          Some([p |-> p, id |-> ref[1]]), << >>, r.sdk)
       /\ UNCHANGED << env, navVars, currentPlatform, initialized, config, countlyProvider,
                       posthogProvider, trackScreenViews, tasks >>

\* Countly.getCurrentDeviceId() awaited by the native Adapter settles and the
\* promise the application got from getDeviceId() is resolved
Countly_getDeviceId_resume(c, sdkVal, ok) ==
    /\ BagIn(c, awaited) /\ c.fn = "getDeviceId"
    /\ awaited' = awaited (-) SetToBag({c})
    /\ last' = Outcome("proxy.getDeviceId.resolved", "none",
                       Some(CountlyProvider_getDeviceId_resume(sdkVal, ok)),
                       Some([p |-> "countly", id |-> c.id]), << >>, << >>)
    /\ UNCHANGED << env, navVars, currentPlatform, initialized, config, countlyProvider,
                    posthogProvider, trackScreenViews, proxies, tasks >>

\* the Adapter methods that can be suspended
SuspendedCalls ==
    [id : ProxyIds, gen : 1..MaxAdapters, fn : {"shutdown", "getDeviceId"}]

\* Proxy.setDebug (both Proxies): this._debug = enabled, forwarded to the
\* Adapter when one is bound
Proxy_setDebug(px, enabled) ==
    [px EXCEPT !.debug = enabled,
               !.adebug = IF px.impl # "none" THEN enabled ELSE @]

\* the application calls setDebug on the Proxy the Orchestrator holds for p
Proxy_callSetDebug(p, enabled) ==
    LET ref == IF p = "countly" THEN countlyProvider ELSE posthogProvider
    IN /\ ref # Undef
       /\ proxies' = [proxies EXCEPT ![ref[1]] = Proxy_setDebug(@, enabled)]
       /\ last' = Outcome("proxy.setDebug", "none", Some("<undefined>"),
                          Some([p |-> p, id |-> ref[1]]), << >>, << >>)
       /\ UNCHANGED << env, awaited, navVars, currentPlatform, initialized, config,
                       countlyProvider, posthogProvider, trackScreenViews, tasks >>

----------------------------------------------------------------------------
Init ==
    /\ env \in Envs
    /\ currentPlatform = Undef
    /\ initialized = FALSE
    /\ config = Undef
    /\ countlyProvider = Undef
    /\ posthogProvider = Undef
    /\ trackScreenViews = TRUE
    /\ proxies = [id \in ProxyIds |-> NoProxy]
    /\ tasks = [t \in Tasks |-> IdleTask]
    /\ awaited = EmptyBag
    /\ screenViewOverrides = EmptyObj
    /\ routeNameRef = Undef
    /\ previousPath = << >>
    /\ last = Done("new")

Next ==
    \/ \E cfg \in Configs : UnifiedAnalytics_init(cfg, FALSE)
    \/ \E t \in Tasks, ok \in BOOLEAN : Proxy_init_resume(t, ok)
    \/ \E t \in Tasks, r \in AwaitResults : Adapter_init_resume(t, r)
    \/ \E t \in Tasks : UnifiedAnalytics_init_resume(t)
    \/ \E v \in FlagVals, ok \in BOOLEAN : UnifiedAnalytics_getFeatureFlag(v, ok)
    \/ \E v \in FlagVals, ok \in BOOLEAN : UnifiedAnalytics_isFeatureEnabled(v, ok)
    \/ \E m \in FlagMaps, ok \in BOOLEAN : UnifiedAnalytics_getAllFeatureFlags(m, ok)
    \/ \E ok \in BOOLEAN : UnifiedAnalytics_onFeatureFlagsChange(ok)

Spec == Init /\ [][Next]_vars

\* the application initializes with complete provider blocks and then works
\* with global properties
NextProps ==
    \/ \E cfg \in BasicConfigs : UnifiedAnalytics_init(cfg, FALSE)
    \/ \E t \in Tasks, ok \in BOOLEAN : Proxy_init_resume(t, ok)
    \/ \E t \in Tasks, r \in AwaitResults : Adapter_init_resume(t, r)
    \/ \E t \in Tasks : UnifiedAnalytics_init_resume(t)
    \/ \E props \in Objs(PropKeys, PropVals), fail \in Fails :
          UnifiedAnalytics_setGlobalProperties(props, fail)
    \/ \E key \in PropKeys, fail \in Fails : UnifiedAnalytics_removeGlobalProperty(key, fail)
    \/ \E fail \in Fails : UnifiedAnalytics_clearGlobalProperties(fail)
    \/ \E fail \in Fails : UnifiedAnalytics_reset(fail)
    \/ \E ok \in BOOLEAN : PostHog_shutdown(ok)
    \/ \E c \in SuspendedCalls, ok \in BOOLEAN : PostHog_shutdown_resume(c, ok)

SpecProps == Init /\ [][NextProps]_vars

\* no init() call is suspended at an await
Settled == \A t \in Tasks : tasks[t].pc \in {"idle", "done"}

\* the application awaits init() and then navigates with the handlers of both
\* kinds, tracks views by hand, registers overrides and toggles screen-view
\* tracking
NextNav ==
    \/ \E cfg \in NavConfigs : UnifiedAnalytics_init(cfg, FALSE)
    \/ \E t \in Tasks, ok \in BOOLEAN : Proxy_init_resume(t, ok)
    \/ \E t \in Tasks, r \in AwaitResults : Adapter_init_resume(t, r)
    \/ \E t \in Tasks : UnifiedAnalytics_init_resume(t)
    \/ Settled /\ \E name \in Screens, fail \in FailsAll : UnifiedAnalytics_trackView(name, fail)
    \/ Settled /\ \E enabled \in BOOLEAN : UnifiedAnalytics_setTrackScreenViews(enabled)
    \/ Settled /\ \E o \in Overrides : UnifiedAnalytics_setScreenViewOverride(o[1], o[2])
    \/ Settled /\ \E sn \in Screens : UnifiedAnalytics_clearScreenViewOverride(sn)
    \/ Settled /\ \E cur \in Routes : Navigation_onReady(cur)
    \/ Settled /\ \E cur \in Routes : Navigation_onStateChange(cur, {})
    \/ Settled /\ UnifiedAnalytics_createWebNavigationHandlers
    \/ Settled /\ \E h \in 1..MaxHandlers, url \in Routes :
          Navigation_onRouteChange(h, url, {})

SpecNav == Init /\ [][NextNav]_vars

\* arguments of trackError: an Error object or a string, with or without
\* text; metadata with or without fatal, message and a key of the caller's
ErrorInputs == [kind : {"Error", "string"}, text : {"boom", ""}]
MetaInputs ==
    {Merge(f, m) : f \in Objs({"fatal"}, {"<true>", "<false>"}),
                   m \in Objs({"message", "screen"}, {"ctx"})}

\* the application initializes and then reports errors and uses the PostHog
\* Proxy's event aliases
NextErr ==
    \/ \E cfg \in BasicConfigs : UnifiedAnalytics_init(cfg, FALSE)
    \/ \E t \in Tasks, ok \in BOOLEAN : Proxy_init_resume(t, ok)
    \/ \E t \in Tasks, r \in AwaitResults : Adapter_init_resume(t, r)
    \/ \E t \in Tasks : UnifiedAnalytics_init_resume(t)
    \/ \E e \in ErrorInputs, m \in MetaInputs, fail \in Fails :
          UnifiedAnalytics_trackError(e, m, fail)
    \/ \E props \in Objs({"screen"}, {"ctx"}), ok \in BOOLEAN : PostHog_capture("ev", props, ok)
    \/ \E props \in Objs({"screen"}, {"ctx"}), ok \in BOOLEAN : PostHog_screen("Home", props, ok)

SpecErr == Init /\ [][NextErr]_vars

\* the application initializes and then uses every unified dispatch
\* operation, toggles screen-view tracking and may shut PostHog down
NextDispatch ==
    \/ \E cfg \in BasicConfigs : UnifiedAnalytics_init(cfg, FALSE)
    \/ \E t \in Tasks, ok \in BOOLEAN : Proxy_init_resume(t, ok)
    \/ \E t \in Tasks, r \in AwaitResults : Adapter_init_resume(t, r)
    \/ \E t \in Tasks : UnifiedAnalytics_init_resume(t)
    \/ \E props \in Objs({"k1"}, {"a", "<true>"}), fail \in Fails :
          UnifiedAnalytics_trackEvent("ev", props, fail)
    \/ \E fail \in Fails : UnifiedAnalytics_trackView("Home", fail)
    \/ \E enabled \in BOOLEAN : UnifiedAnalytics_setTrackScreenViews(enabled)
    \/ \E props \in Objs({"k1"}, {"a", "<true>"}), fail \in Fails :
          UnifiedAnalytics_identify("u1", props, fail)
    \/ \E props \in Objs({"k1"}, {"a", "<true>"}), fail \in Fails :
          UnifiedAnalytics_setUserProperties(props, fail)
    \/ \E fail \in Fails : UnifiedAnalytics_reset(fail)
    \/ \E e \in {[kind |-> "Error", text |-> "boom"]}, m \in Objs({"fatal"}, {"<true>"}),
          fail \in Fails : UnifiedAnalytics_trackError(e, m, fail)
    \/ \E ok \in BOOLEAN : PostHog_shutdown(ok)
    \/ \E c \in SuspendedCalls, ok \in BOOLEAN : PostHog_shutdown_resume(c, ok)

SpecDispatch == Init /\ [][NextDispatch]_vars

\* the application sets global properties and sends events of every kind
CtxEvents == Objs({"k2"}, {"b"})
CtxErrors == {[kind |-> "Error", text |-> "boom"]}
CtxMeta == Objs({"fatal"}, {"<true>"})

NextCtx ==
    \/ \E cfg \in BasicConfigs : UnifiedAnalytics_init(cfg, FALSE)
    \/ \E t \in Tasks, ok \in BOOLEAN : Proxy_init_resume(t, ok)
    \/ \E t \in Tasks, r \in AwaitResults : Adapter_init_resume(t, r)
    \/ \E t \in Tasks : UnifiedAnalytics_init_resume(t)
    \/ \E props \in Objs(PropKeys, PropVals), fail \in Fails :
          UnifiedAnalytics_setGlobalProperties(props, fail)
    \/ \E fail \in Fails : UnifiedAnalytics_clearGlobalProperties(fail)
    \/ \E props \in CtxEvents, fail \in Fails : UnifiedAnalytics_trackEvent("ev", props, fail)
    \/ \E fail \in Fails : UnifiedAnalytics_trackView("Home", fail)
    \/ \E fail \in Fails : UnifiedAnalytics_startTimer("ev", fail)
    \/ \E props \in CtxEvents, fail \in Fails : UnifiedAnalytics_endTimer("ev", props, fail)
    \/ \E e \in CtxErrors, m \in CtxMeta, fail \in Fails :
          UnifiedAnalytics_trackError(e, m, fail)

SpecCtx == Init /\ [][NextCtx]_vars

\* the application sets and reads the platform around init()
PlatformValues == {"web", "native", "ios", "", "<undefined>"}

NextPlatform ==
    \/ \E cfg \in Configs : UnifiedAnalytics_init(cfg, FALSE)
    \/ \E t \in Tasks, ok \in BOOLEAN : Proxy_init_resume(t, ok)
    \/ \E t \in Tasks, r \in AwaitResults : Adapter_init_resume(t, r)
    \/ \E t \in Tasks : UnifiedAnalytics_init_resume(t)
    \/ \E v \in PlatformValues : Platform_setPlatform(v)
    \/ Platform_getPlatform

SpecPlatform == Init /\ [][NextPlatform]_vars

\* the application initializes, sets global properties, and calls init again
\* on the Proxies the Orchestrator holds
ProxyBlocks(p) ==
    {(IF p = "countly" THEN cfg.countly ELSE cfg.posthog)[1] :
        cfg \in {c \in BasicConfigs : IsSet(IF p = "countly" THEN c.countly ELSE c.posthog)}}

NextProxy ==
    \/ \E cfg \in BasicConfigs : UnifiedAnalytics_init(cfg, FALSE)
    \/ \E t \in Tasks, ok \in BOOLEAN : Proxy_init_resume(t, ok)
    \/ \E t \in Tasks, r \in AwaitResults : Adapter_init_resume(t, r)
    \/ \E t \in Tasks : UnifiedAnalytics_init_resume(t)
    \/ \E props \in Objs({"k1"}, PropVals), fail \in Fails :
          UnifiedAnalytics_setGlobalProperties(props, fail)
    \/ \E p \in Provs : \E block \in ProxyBlocks(p) : Proxy_init(p, block)
    \/ \E t \in Tasks, ok \in BOOLEAN : Proxy_init_import(t, ok)
    \/ \E t \in Tasks, r \in AwaitResults : Proxy_init_sdk(t, r)

SpecProxy == Init /\ [][NextProxy]_vars

\* the application awaits init(), sends events, shuts PostHog down and calls
\* Proxy.init on a Proxy it holds
NextReenable ==
    \/ \E cfg \in BasicConfigs : UnifiedAnalytics_init(cfg, FALSE)
    \/ \E t \in Tasks, ok \in BOOLEAN : Proxy_init_resume(t, ok)
    \/ \E t \in Tasks, r \in AwaitResults : Adapter_init_resume(t, r)
    \/ \E t \in Tasks : UnifiedAnalytics_init_resume(t)
    \/ \E fail \in FailsAll : UnifiedAnalytics_trackEvent("ev", EmptyObj, fail)
    \/ \E fail \in FailsAll : UnifiedAnalytics_reset(fail)
    \/ \E ok \in BOOLEAN : PostHog_shutdown(ok)
    \/ \E c \in SuspendedCalls, ok \in BOOLEAN : PostHog_shutdown_resume(c, ok)
    \/ \E p \in Provs : \E block \in ProxyBlocks(p) : Proxy_init(p, block)
    \/ \E t \in Tasks, ok \in BOOLEAN : Proxy_init_import(t, ok)
    \/ \E t \in Tasks, r \in AwaitResults : Proxy_init_sdk(t, r)

SpecReenable == Init /\ [][NextReenable]_vars

\* init() calls that may begin while an earlier one is suspended at an await
\* (a remounted AnalyticsProvider, or two callers), and setDebug called on
\* the Proxies meanwhile
NextRace ==
    \/ \E cfg \in BasicConfigs : UnifiedAnalytics_init(cfg, TRUE)
    \/ \E t \in Tasks, ok \in BOOLEAN : Proxy_init_resume(t, ok)
    \/ \E t \in Tasks, r \in AwaitResults : Adapter_init_resume(t, r)
    \/ \E t \in Tasks : UnifiedAnalytics_init_resume(t)
    \/ \E p \in Provs, enabled \in BOOLEAN : Proxy_callSetDebug(p, enabled)

SpecRace == Init /\ [][NextRace]_vars

\* the application stores a user context and sends Countly events whose
\* properties collide with it
EventVals == {"c", "<true>", "<undefined>"}

NextMerge ==
    \/ \E cfg \in BasicConfigs : UnifiedAnalytics_init(cfg, FALSE)
    \/ \E t \in Tasks, ok \in BOOLEAN : Proxy_init_resume(t, ok)
    \/ \E t \in Tasks, r \in AwaitResults : Adapter_init_resume(t, r)
    \/ \E t \in Tasks : UnifiedAnalytics_init_resume(t)
    \/ \E props \in Objs(PropKeys, PropVals), fail \in FailsAll :
          UnifiedAnalytics_setGlobalProperties(props, fail)
    \/ \E props \in Objs(PropKeys, EventVals), ok \in BOOLEAN :
          Countly_trackEvent("ev", props, ok)
    \/ \E props \in Objs(PropKeys, EventVals), ok \in BOOLEAN :
          Countly_trackView("Home", props, ok)

SpecMerge == Init /\ [][NextMerge]_vars

\* the application calls the Proxies' methods before, while and after init()
\* resolves their Adapters
NextDelegate ==
    \/ \E cfg \in BasicConfigs : UnifiedAnalytics_init(cfg, FALSE)
    \/ \E t \in Tasks, ok \in BOOLEAN : Proxy_init_resume(t, ok)
    \/ \E t \in Tasks, r \in AwaitResults : Adapter_init_resume(t, r)
    \/ \E t \in Tasks : UnifiedAnalytics_init_resume(t)
    \/ \E p \in Provs, op \in CountlyOps \cup PostHogOps, ok \in BOOLEAN :
          Proxy_call(p, op, "d1", ok)
    \/ \E id \in SdkIds : Proxy_call("countly", "proxy.getDeviceId", id, TRUE)
    \/ \E c \in SuspendedCalls, ok \in BOOLEAN : PostHog_shutdown_resume(c, ok)
    \/ \E c \in SuspendedCalls, id \in SdkIds, ok \in BOOLEAN :
          Countly_getDeviceId_resume(c, id, ok)

SpecDelegate == Init /\ [][NextDelegate]_vars

----------------------------------------------------------------------------
\* Properties

HasBoth(c) == IsSet(c.countly) /\ IsSet(c.posthog)
OnlyCountly(c) == IsSet(c.countly) /\ ~IsSet(c.posthog)
OnlyPostHog(c) == ~IsSet(c.countly) /\ IsSet(c.posthog)

\* the init() call of slot t has just resolved
Resolved(t) == last.op = "init.resolved" /\ tasks[t].pc = "done"

\* the Adapter that init() call t constructed for provider p ended initialized
InitOk(t, p) == proxies[<< t, p >>].ainit

InSeq(x, sq) == \E i \in 1..Len(sq) : sq[i] = x

\* C1: failure isolation in init(). With both providers configured, an init()
\* call never rejects; when it resolves, a provider whose init failed has its
\* Proxy reference set to absent and, if exactly one failed, the other one is
\* listed by getEnabledProviders().
Thm_C1 ==
    \A t \in Tasks :
        (tasks[t].cfg # Undef /\ HasBoth(tasks[t].cfg[1])) =>
            /\ tasks[t].pc # "rejected"
            /\ Resolved(t) =>
                  /\ last.err = "none"
                  /\ ~InitOk(t, "countly") => countlyProvider = Undef
                  /\ ~InitOk(t, "posthog") => posthogProvider = Undef
                  /\ (~InitOk(t, "countly") /\ InitOk(t, "posthog"))
                        => InSeq("posthog", getEnabledProviders)
                  /\ (InitOk(t, "countly") /\ ~InitOk(t, "posthog"))
                        => InSeq("countly", getEnabledProviders)

\* Countly's init failed, PostHog's succeeded, init() resolved
Wit_C1 ==
    \E t \in Tasks :
        /\ Resolved(t) /\ HasBoth(tasks[t].cfg[1])
        /\ ~InitOk(t, "countly") /\ InitOk(t, "posthog")
        /\ countlyProvider = Undef
        /\ getEnabledProviders = << "posthog" >>

\* a config validateConfig must reject: no provider block, or a configured
\* block without one of its required fields
InvalidConfig(c) ==
    \/ ~IsSet(c.countly) /\ ~IsSet(c.posthog)
    \/ IsSet(c.countly) /\ c.countly[1].serverUrl \in {Undef, Some("")}
    \/ IsSet(c.countly) /\ c.countly[1].appKey \in {Undef, Some("")}
    \/ IsSet(c.posthog) /\ c.posthog[1].apiKey \in {Undef, Some("")}

NoProxyBuilt == \A id \in ProxyIds : proxies[id] = NoProxy

\* C2: on an Orchestrator that is not initialized, init() with an invalid
\* config fails with the configuration error and changes nothing: no Proxy is
\* constructed, no init() call is left suspended on an SDK, both references
\* stay absent and isInitialized() stays false.
Thm_C2 ==
    [][ (/\ ~initialized
         /\ \A t \in Tasks : ~InFlight(t)
         /\ last'.arg # Undef
         /\ InvalidConfig(last'.arg[1]))
        => /\ last'.op = "init" /\ last'.err = "ConfigurationError"
           /\ ~isInitialized'
           /\ countlyProvider' = Undef /\ posthogProvider' = Undef
           /\ NoProxyBuilt'
           /\ UNCHANGED << proxies, tasks, config, currentPlatform, trackScreenViews >>
           /\ last'.sdk = << >> ]_vars

\* init() was rejected for a config whose PostHog block is complete and whose
\* Countly block lacks appKey
Wit_C2 ==
    /\ last.op = "init" /\ last.err = "ConfigurationError"
    /\ last.arg # Undef
    /\ last.arg[1].posthog = Some([apiKey |-> Some("x"), debug |-> Undef])
    /\ IsSet(last.arg[1].countly)
    /\ last.arg[1].countly[1].serverUrl = Some("x")
    /\ last.arg[1].countly[1].appKey = Undef
    /\ ~initialized /\ countlyProvider = Undef /\ posthogProvider = Undef
    /\ NoProxyBuilt

\* C3: after removeGlobalProperty(k), getGlobalProperties() does not contain k.
Cex_C3 ==
    last.op = "removeGlobalProperty" => last.arg[1] \notin DOMAIN getGlobalProperties

\* C4: a setGlobalProperties(props) call made while some provider is active
\* leaves getGlobalProperties() containing every k:v of props and every key it
\* contained before that props does not overwrite, with its value; while no
\* provider is active getGlobalProperties() is the empty mapping.
Thm_C4 ==
    /\ []((~CountlyActive /\ ~PostHogActive) => getGlobalProperties = EmptyObj)
    /\ [][(last'.op = "setGlobalProperties" /\ (CountlyActive \/ PostHogActive)) =>
            LET props == last'.arg[1]
                before == getGlobalProperties
                after == getGlobalProperties'
            IN /\ \A k \in DOMAIN props : k \in DOMAIN after /\ after[k] = props[k]
               /\ \A k \in (DOMAIN before) \ (DOMAIN props) :
                      k \in DOMAIN after /\ after[k] = before[k]]_vars

\* only PostHog is active, its SDK threw in register, and the mapping holds
\* the key just set next to one set earlier
Wit_C4 ==
    /\ last.op = "setGlobalProperties" /\ PostHogActive /\ ~CountlyActive
    /\ last.sdk # << >> /\ ~last.sdk[1].ok
    /\ DOMAIN last.arg[1] = {"k1"}
    /\ DOMAIN getGlobalProperties = {"k1", "k2"}

\* this step is a navigation handler being told of a transition to screen s:
\* onStateChange with the current route s after another route, or
\* onRouteChange with the path s after another path
NavTo(s) ==
    \/ last'.op = "onStateChange" /\ last'.arg = Some(s) /\ routeNameRef # Some(s)
    \/ /\ last'.op = "onRouteChange" /\ last'.arg[1].url = Some(s)
       /\ previousPath[last'.arg[1].handler] # Some(s)

\* C5: a transition made while screen-view tracking is enabled to a screen s
\* with a registered override c tracks exactly one view, named c, and deletes
\* that entry and no other in the same step; a transition to a screen
\* without an entry tracks exactly one view named s. (While tracking is
\* disabled no view is tracked at all, which C27 is about.)
Cex_C5 ==
    [][\A s \in Screens :
        (NavTo(s) /\ trackScreenViews) =>
            IF s \in DOMAIN screenViewOverrides
            THEN /\ last'.ret = << screenViewOverrides[s] >>
                 /\ screenViewOverrides' = Delete(screenViewOverrides, s)
            ELSE /\ last'.ret = << s >>
                 /\ screenViewOverrides' = screenViewOverrides]_vars

ViewOps == {"trackView", "onStateChange", "onRouteChange"}

\* the calls the active providers get for one view
ViewCalls(name) ==
    (IF CountlyActive THEN << Call("countly", "trackView", name, EmptyObj) >> ELSE << >>)
    \o (IF PostHogActive THEN << Call("posthog", "trackView", name, EmptyObj) >> ELSE << >>)

\* C6: while screen-view tracking is disabled a trackView call, made by the
\* application or by a navigation handler, reaches no provider and no SDK;
\* while it is enabled a trackView(name) call reaches every active provider,
\* and only those, once. An init(config) call that gets past validation
\* leaves tracking disabled exactly when config.trackScreenViews is false.
Thm_C6 ==
    /\ last.op \in ViewOps =>
        /\ ~trackScreenViews => (last.calls = << >> /\ last.sdk = << >>)
        /\ (trackScreenViews /\ last.op = "trackView") =>
               (last.calls = ViewCalls(last.arg[1]) /\ Len(last.sdk) = Len(last.calls))
    /\ (last.op = "init.await" /\ last.arg # Undef) =>
        trackScreenViews = (last.arg[1].trackScreenViews # Some(FALSE))

\* init was given trackScreenViews: false and a trackView call was then made
\* with both providers active: it reached neither
Wit_C6 ==
    /\ last.op = "trackView" /\ ~trackScreenViews
    /\ config # Undef /\ config[1].trackScreenViews = Some(FALSE)
    /\ CountlyActive /\ PostHogActive
    /\ last.calls = << >> /\ last.sdk = << >>

FlagOps == {"getFeatureFlag", "isFeatureEnabled", "getAllFeatureFlags",
            "onFeatureFlagsChange"}

\* C7: whenever PostHog is not active, each feature-flag read returns without
\* error: getFeatureFlag null, isFeatureEnabled false, getAllFeatureFlags the
\* empty mapping, onFeatureFlagsChange a no-op function.
Cex_C7 ==
    (last.op \in FlagOps /\ ~PostHogActive) =>
        /\ last.err = "none"
        /\ last.ret # Undef
        /\ last.op = "getFeatureFlag" => last.ret[1] = "<null>"
        /\ last.op = "isFeatureEnabled" => last.ret[1] = "<false>"
        /\ last.op = "getAllFeatureFlags" => last.ret[1] = EmptyObj
        /\ last.op = "onFeatureFlagsChange" => last.ret[1] = "<function>"

\* does the sequence of calls hold one to provider p that satisfies Carries
HasCall(calls, p, Carries(_)) ==
    \E i \in 1..Len(calls) : calls[i].p = p /\ Carries(calls[i].props)

\* C8: trackError(error, metadata) raises nothing and gives each active
\* provider a call that carries the error's message (as normalized: the
\* message of the Error object or the string itself, the string form of an
\* Error without message text) and the caller's metadata, fatal:true included.
Cex_C8 ==
    last.op = "trackError" =>
        LET e == last.arg[1].error
            metadata == last.arg[1].metadata
            ForCountly(o) ==
                /\ o.message = Error_message(e)
                /\ o.segments = metadata
                /\ Get(metadata, "fatal") = "<true>" => o.fatal = "<true>"
            ForPostHog(o) ==
                /\ o["$exception_message"] = Error_message(e)
                /\ \A k \in DOMAIN metadata : k \in DOMAIN o /\ o[k] = metadata[k]
        IN /\ last.err = "none"
           /\ CountlyActive => HasCall(last.calls, "countly", ForCountly)
           /\ PostHogActive => HasCall(last.calls, "posthog", ForPostHog)

\* C9 as stated: after init() with a single-provider config resolves,
\* getEnabledProviders() is exactly that provider
Cex_C9 ==
    \A t \in Tasks :
        Resolved(t) =>
            /\ OnlyCountly(tasks[t].cfg[1]) => getEnabledProviders = << "countly" >>
            /\ OnlyPostHog(tasks[t].cfg[1]) => getEnabledProviders = << "posthog" >>

\* C9 (amended): after init() with a valid single-provider config resolves,
\* getEnabledProviders() is exactly that provider when its init succeeded and
\* empty when its init failed; hasProvider of the other provider and of an
\* unknown name is false in both cases.
Thm_C9 ==
    \A t \in Tasks :
        Resolved(t) =>
            /\ OnlyCountly(tasks[t].cfg[1]) =>
                  /\ getEnabledProviders =
                        (IF InitOk(t, "countly") THEN << "countly" >> ELSE << >>)
                  /\ hasProvider("countly") = InitOk(t, "countly")
                  /\ ~hasProvider("posthog") /\ ~hasProvider("mixpanel")
            /\ OnlyPostHog(tasks[t].cfg[1]) =>
                  /\ getEnabledProviders =
                        (IF InitOk(t, "posthog") THEN << "posthog" >> ELSE << >>)
                  /\ hasProvider("posthog") = InitOk(t, "posthog")
                  /\ ~hasProvider("countly") /\ ~hasProvider("mixpanel")

\* init() with a PostHog-only config resolved with PostHog initialized
Wit_C9 ==
    \E t \in Tasks :
        /\ Resolved(t) /\ OnlyPostHog(tasks[t].cfg[1]) /\ InitOk(t, "posthog")
        /\ getEnabledProviders = << "posthog" >>
        /\ ~hasProvider("countly")

\* C10: an init() call that got past validation and the platform override
\* ends with initialized = true whatever its providers did (with every
\* configured provider failed, getEnabledProviders() is empty); from then on
\* every init() call changes nothing, and a provider reference that init()
\* discarded stays absent.
Thm_C10 ==
    [][ /\ \A t \in Tasks :
              (InFlight(t) /\ ~InFlight(t)') =>
                  /\ tasks'[t].pc = "done" /\ initialized'
                  /\ (\A p \in Provs : ~InitOk(t, p)') => getEnabledProviders' = << >>
        /\ initialized =>
              /\ initialized'
              /\ countlyProvider = Undef => countlyProvider' = Undef
              /\ posthogProvider = Undef => posthogProvider' = Undef
              /\ last'.op = "init" =>
                    /\ last'.err = "none"
                    /\ UNCHANGED << config, countlyProvider, posthogProvider,
                                    proxies, tasks, currentPlatform, trackScreenViews >>
      ]_vars

\* both providers were configured, both failed, and init() resolved
Wit_C10 ==
    \E t \in Tasks :
        /\ Resolved(t) /\ HasBoth(tasks[t].cfg[1])
        /\ ~InitOk(t, "countly") /\ ~InitOk(t, "posthog")
        /\ initialized
        /\ getEnabledProviders = << >>

\* C11: an init() call made once an earlier init() has completed is a no-op
\* whatever config it is given: it raises nothing, starts nothing, and leaves
\* the stored config, both Proxy references, the Proxies, the platform value
\* and the screen-view switch as they were.
Thm_C11 ==
    [][(initialized /\ last'.op = "init") =>
          /\ last'.err = "none"
          /\ initialized'
          /\ \A t \in Tasks : ~InFlight(t)'
          /\ config' = config
          /\ countlyProvider' = countlyProvider /\ posthogProvider' = posthogProvider
          /\ proxies' = proxies
          /\ currentPlatform' = currentPlatform
          /\ trackScreenViews' = trackScreenViews]_vars

\* init() was called again after an init() that brought up only PostHog
Wit_C11 ==
    /\ last.op = "init" /\ last.err = "none" /\ initialized
    /\ PostHogActive /\ countlyProvider = Undef
    /\ \E t \in Tasks : tasks[t].pc = "done" /\ HasBoth(tasks[t].cfg[1])

\* C12: getGlobalProperties() is the store of the first active provider,
\* Countly before PostHog, and never a merge: Countly's user context whenever
\* Countly is active, whatever PostHog's super properties hold, and PostHog's
\* super properties when only PostHog is active.
Thm_C12 ==
    /\ CountlyActive => getGlobalProperties = proxies[countlyProvider[1]].store
    /\ (~CountlyActive /\ PostHogActive) =>
           getGlobalProperties = proxies[posthogProvider[1]].store

\* both providers are active and PostHog holds a key that Countly's context
\* lacks (its context was cleared by reset() in between)
Wit_C12 ==
    /\ CountlyActive /\ PostHogActive
    /\ DOMAIN proxies[countlyProvider[1]].store = {"k1"}
    /\ DOMAIN proxies[posthogProvider[1]].store = {"k1", "k2"}
    /\ DOMAIN getGlobalProperties = {"k1"}

DispatchOps == {"trackEvent", "trackView", "identify", "setUserProperties", "reset",
                "trackError"}

\* the providers named in a sequence of calls
Receivers(calls) == {calls[i].p : i \in 1..Len(calls)}

\* C13: a unified dispatch operation (trackEvent, trackView while tracking is
\* enabled, identify, setUserProperties, reset, trackError) raises nothing and
\* calls each active provider's Proxy once and no other Proxy; no SDK of a
\* provider that is not active is called.
Thm_C13 ==
    (last.op \in DispatchOps /\ (last.op = "trackView" => trackScreenViews)) =>
        /\ last.err = "none"
        /\ Receivers(last.calls) = {p \in Provs : hasProvider(p)}
        /\ Len(last.calls) = Cardinality({p \in Provs : hasProvider(p)})
        /\ Receivers(last.sdk) \subseteq {p \in Provs : hasProvider(p)}

\* identify() after PostHog was shut down: the Orchestrator still holds both
\* Proxies and only Countly's received the call
Wit_C13 ==
    /\ last.op = "identify" /\ initialized
    /\ posthogProvider # Undef /\ ~PostHogActive /\ CountlyActive
    /\ Receivers(last.calls) = {"countly"}

\* C14: whenever onFeatureFlagsChange(callback) returns, with PostHog
\* active or not, what it returns is a function (the unsubscribe).
Cex_C14 ==
    (last.op = "onFeatureFlagsChange" /\ last.err = "none") => last.ret = Some("<function>")

\* the calls made on the PostHog SDK
PostHogSdkCalls(sdk) == {i \in 1..Len(sdk) : sdk[i].p = "posthog"}

\* C15: with PostHog active, one capture() or one screen() on the PostHog
\* Proxy, and one trackError() on the Orchestrator, each hands exactly one
\* event to the PostHog client.
Cex_C15 ==
    (last.op \in {"posthog.capture", "posthog.screen", "trackError"} /\ PostHogActive) =>
        Cardinality(PostHogSdkCalls(last.sdk)) = 1

\* the Countly SDK functions that take an event with a segmentation
CountlyEventFns == {"add_event", "recordEvent", "track_pageview", "recordView",
                    "end_event", "endEvent", "log_error", "logException"}

\* the properties the application supplied with the last call
Supplied ==
    IF last.op \in {"trackEvent", "endTimer"} THEN last.arg[1].props
    ELSE IF last.op = "trackError" THEN last.arg[1].metadata
    ELSE EmptyObj

\* C16: every event that trackEvent, trackView, endTimer or trackError sends to
\* an active Countly provider carries each stored global property the call did
\* not supply itself.
Cex_C16 ==
    (last.op \in {"trackEvent", "trackView", "endTimer", "trackError"} /\ CountlyActive) =>
        \A i \in 1..Len(last.sdk) :
            (last.sdk[i].p = "countly" /\ last.sdk[i].fn \in CountlyEventFns) =>
                \A k \in DOMAIN proxies[countlyProvider[1]].store \ DOMAIN Supplied :
                    /\ k \in DOMAIN last.sdk[i].props
                    /\ last.sdk[i].props[k] = safeString(proxies[countlyProvider[1]].store[k])

\* the part of C16 the code keeps: trackEvent and trackView carry the stored keys
Ctx_eventsCarry ==
    (last.op \in {"trackEvent", "trackView"} /\ CountlyActive) =>
        \A i \in 1..Len(last.sdk) :
            (last.sdk[i].p = "countly" /\ last.sdk[i].fn \in CountlyEventFns) =>
                \A k \in DOMAIN proxies[countlyProvider[1]].store \ DOMAIN Supplied :
                    /\ k \in DOMAIN last.sdk[i].props
                    /\ last.sdk[i].props[k] = safeString(proxies[countlyProvider[1]].store[k])

\* C17: setPlatform(v) with v outside {web, native} fails with an
\* invalid-platform error and leaves the stored platform as it was; with v in
\* {web, native} it stores v, and a getPlatform() that follows returns v.
Thm_C17 ==
    [][/\ last'.op = "setPlatform" =>
            IF last'.arg[1] \in {"web", "native"}
            THEN last'.err = "none" /\ currentPlatform' = last'.arg
            ELSE last'.err = "InvalidPlatform" /\ currentPlatform' = currentPlatform
       /\ (last.op = "setPlatform" /\ last.err = "none" /\ last'.op = "getPlatform") =>
            last'.ret = last.arg]_vars

\* a rejected setPlatform after an accepted one that disagrees with detection,
\* with no init() ever started
Wit_C17 ==
    /\ last.op = "setPlatform" /\ last.err = "InvalidPlatform" /\ last.arg = Some("ios")
    /\ currentPlatform = Some("web") /\ env = "reactnative"
    /\ \A t \in Tasks : tasks[t].pc = "idle"
    /\ config = Undef

\* C18: whenever a call made on an underlying SDK fails during an operation
\* other than init, the operation returns normally to the application.
Cex_C18 ==
    (/\ last.op # "init"
     /\ \E i \in 1..Len(last.sdk) : ~last.sdk[i].ok /\ last.sdk[i].fn # "callback") =>
        last.err = "none"

\* C19: a Proxy binds one Adapter instance at most over its life, and the SDK
\* is not set up again by Proxy.init on a Proxy that is already initialized.
Cex_C19 ==
    /\ \A id \in ProxyIds : proxies[id].gen <= 1
    /\ last.op = "proxy.init.resolved" => last.sdk = << >>

\* C20: once a provider is initialized by init() under a config with
\* top-level debug = true whose block for that provider does not set debug,
\* the provider's Adapter has debug = true, the flag its Proxy was given.
Cex_C20 ==
    (config # Undef /\ TruthyBool(config[1].debug)) =>
        /\ (CountlyActive /\ config[1].countly[1].debug = Undef) =>
               /\ proxies[countlyProvider[1]].debug
               /\ proxies[countlyProvider[1]].adebug
        /\ (PostHogActive /\ config[1].posthog[1].debug = Undef) =>
               /\ proxies[posthogProvider[1]].debug
               /\ proxies[posthogProvider[1]].adebug

\* the step is the beginning of an init() call
InitBegins ==
    \/ last'.op = "init"
    \/ last'.op \in {"init.await", "init.resolved"} /\ last'.arg # Undef

\* the first provider block of a config, the one init() awaits first
FirstProvider(cfg) == IF IsSet(cfg.countly) THEN "countly" ELSE "posthog"
RefOf(p) == IF p = "countly" THEN countlyProvider ELSE posthogProvider
RefOfNext(p) == IF p = "countly" THEN countlyProvider' ELSE posthogProvider'

\* C21: an init() call that begins while the flag is still unset and an
\* earlier call is suspended inside a provider's init passes the guard and
\* constructs its own Proxy, whose reference replaces the one held before.
Thm_C21 ==
    [][(InitBegins /\ ~initialized /\ \E t \in Tasks : InFlight(t)) =>
          /\ last'.op = "init.await"
          /\ LET p == FirstProvider(last'.arg[1])
                 new == RefOfNext(p)
             IN /\ new # Undef
                /\ new # RefOf(p)
                /\ ~proxies[new[1]].created
                /\ proxies'[new[1]].created
                /\ proxies'[new[1]].impl = "none"
                /\ tasks[new[1][1]].pc = "idle"
                /\ tasks'[new[1][1]].pc = "import"
                /\ \A t \in Tasks : InFlight(t) => tasks'[t] = tasks[t]]_vars

\* two calls in flight: the second one's Countly Proxy is the one referenced,
\* the first one's has been constructed and is orphaned
Wit_C21 ==
    /\ ~initialized
    /\ \A t \in Tasks : InFlight(t)
    /\ countlyProvider = Some(<< 2, "countly" >>)
    /\ proxies[<< 1, "countly" >>].created
    /\ tasks[1].prov = "countly"

\* C22: a Countly trackEvent / trackView sends one event whose segmentation
\* has, for each key of the call's properties, the call's value as a string
\* (nothing, for an undefined value) and never the stored one, and for each
\* other key of the stored userContext the stored value; the call leaves the
\* stored userContext as it was.
Thm_C22 ==
    [][last'.op \in {"countly.trackEvent", "countly.trackView"} =>
          LET stored == proxies[countlyProvider[1]].store
              own == last'.arg[1].props
              sent == last'.sdk[1].props
          IN /\ proxies' = proxies
             /\ Len(last'.sdk) = 1
             /\ DOMAIN sent \subseteq DOMAIN stored \cup DOMAIN own
             /\ \A k \in DOMAIN own :
                    IF own[k] = "<undefined>" THEN k \notin DOMAIN sent
                    ELSE k \in DOMAIN sent /\ sent[k] = safeString(own[k])
             /\ \A k \in DOMAIN stored \ DOMAIN own :
                    k \in DOMAIN sent /\ sent[k] = stored[k]]_vars

\* an event sent with k1 from the call over a different stored k1, and k2
\* from the stored context
Wit_C22 ==
    /\ last.op = "countly.trackEvent" /\ CountlyActive
    /\ last.arg[1].props = [k \in {"k1"} |-> "c"]
    /\ proxies[countlyProvider[1]].store = [k \in {"k1", "k2"} |-> IF k = "k1" THEN "a" ELSE "b"]
    /\ Len(last.sdk) = 1
    /\ last.sdk[1].props = [k \in {"k1", "k2"} |-> IF k = "k1" THEN "c" ELSE "b"]

\* the documented neutral default of a delegated method
NeutralDefault(op) ==
    IF op \in {"proxy.isInitialized", "proxy.isFeatureEnabled"} THEN "<false>"
    ELSE IF op \in {"proxy.getUserContext", "proxy.getRegisteredProperties",
                    "proxy.getAllFeatureFlags"} THEN EmptyObj
    ELSE IF op \in {"proxy.getDeviceId", "proxy.getDistinctId"} THEN "<null>"
    ELSE "<undefined>"

\* C23: a delegated method called on a Proxy that has no Adapter yet does not
\* raise, returns its neutral default, calls no SDK and changes nothing.
Thm_C23 ==
    [][(last'.op \in CountlyOps \cup PostHogOps /\ proxies[last'.arg[1].id].impl = "none") =>
          /\ last'.err = "none"
          /\ last'.ret = Some(NeutralDefault(last'.op))
          /\ last'.sdk = << >>
          /\ proxies' = proxies
          /\ UNCHANGED << currentPlatform, initialized, config, countlyProvider,
                          posthogProvider, trackScreenViews, tasks, awaited >>]_vars

\* getDeviceId answered null by a Countly Proxy whose init() awaits the import
Wit_C23 ==
    /\ last.op = "proxy.getDeviceId" /\ last.ret = Some("<null>")
    /\ last.arg = Some([p |-> "countly", id |-> << 1, "countly" >>])
    /\ tasks[1].pc = "import" /\ tasks[1].prov = "countly"
    /\ proxies[<< 1, "countly" >>].created /\ proxies[<< 1, "countly" >>].impl = "none"

\* the step stores a platform through a successful setPlatform: the
\* application's own call, or the one init() makes for config.platform
PlatformSet ==
    \/ last'.op = "setPlatform" /\ last'.err = "none" /\ currentPlatform' = last'.arg
    \/ /\ last'.op \in {"init.await", "init.resolved"} /\ last'.arg # Undef
       /\ TruthyStr(last'.arg[1].platform)
       /\ currentPlatform' = last'.arg[1].platform

\* C24: a cached platform is what every getPlatform() returns and it stays
\* as it is in every step but a successful setPlatform; a failed setPlatform
\* and an init() that is rejected or skipped leave it alone.
Thm_C24 ==
    [][currentPlatform # Undef =>
          /\ last'.op = "getPlatform" => last'.ret = currentPlatform
          /\ currentPlatform' = currentPlatform \/ PlatformSet
          /\ (last'.op = "setPlatform" /\ last'.err # "none") =>
                 currentPlatform' = currentPlatform
          /\ last'.op = "init" => currentPlatform' = currentPlatform]_vars

\* an init() rejected for its platform value after the platform was detected
\* in a browser, with no other init() ever started
Wit_C24 ==
    /\ last.op = "init" /\ last.err = "InvalidPlatform"
    /\ currentPlatform = Some("web") /\ env = "browser"
    /\ \A t \in Tasks : tasks[t].pc = "idle"

\* init() call t is suspended inside the init of its current provider, whose
\* Adapter has not finished
Unfinished(t) == tasks[t].pc \in {"import"} \cup AdapterPhases

\* C25: a trackEvent issued while an init() call is in progress reaches
\* exactly the providers whose Adapter is initialized at that moment: Countly
\* alone once Countly's Adapter has finished and PostHog's has not, none while
\* the Adapter of the first provider has not finished; the steps that resume
\* init() deliver no call of the application afterwards.
Thm_C25 ==
    [][/\ (last'.op = "trackEvent" /\ \E t \in Tasks : InFlight(t)) =>
            /\ Receivers(last'.calls) = {p \in Provs : hasProvider(p)}
            /\ Receivers(last'.sdk) \subseteq {p \in Provs : hasProvider(p)}
            /\ \A p \in Receivers(last'.calls) :
                   RefOf(p) # Undef /\ proxies[RefOf(p)[1]].ainit
            /\ \A t \in Tasks : InFlight(t) =>
                   /\ Unfinished(t) => tasks[t].prov \notin Receivers(last'.calls)
                   /\ (Unfinished(t) /\ tasks[t].prov = FirstProvider(tasks[t].cfg[1])) =>
                          last'.calls = << >>
                   /\ (/\ HasBoth(tasks[t].cfg[1]) /\ countlyProvider # Undef
                       /\ \/ tasks[t].prov = "posthog" /\ Unfinished(t)
                          \/ tasks[t].prov = "countly" /\ tasks[t].pc = "fulfilled") =>
                         Receivers(last'.calls) = {"countly"}
       /\ last'.op \in {"init.await", "init.settled", "init.resolved", "init.rejected"} =>
            /\ last'.calls = << >>
            /\ \A i \in 1..Len(last'.sdk) : last'.sdk[i].fn = "init"]_vars

\* a trackEvent delivered to Countly alone while init() awaits PostHog
Wit_C25 ==
    /\ last.op = "trackEvent" /\ ~initialized
    /\ \E t \in Tasks : InFlight(t) /\ tasks[t].prov = "posthog" /\ HasBoth(tasks[t].cfg[1])
    /\ CountlyActive /\ posthogProvider # Undef
    /\ Receivers(last.calls) = {"countly"}
    /\ Receivers(last.sdk) = {"countly"}

\* C26: reset() empties an active Countly provider's userContext and leaves
\* PostHog's registeredProperties as they were: with PostHog alone active
\* getGlobalProperties() returns after reset() what it returned before, and
\* with both active the stores differ afterwards whenever a global property
\* was registered.
Thm_C26 ==
    [][last'.op = "reset" =>
          /\ CountlyActive => proxies'[countlyProvider[1]].store = EmptyObj
          /\ posthogProvider # Undef =>
                 proxies'[posthogProvider[1]].store = proxies[posthogProvider[1]].store
          /\ (~CountlyActive /\ PostHogActive) =>
                 /\ getGlobalProperties' = getGlobalProperties
                 /\ getGlobalProperties' = proxies[posthogProvider[1]].store
          /\ (CountlyActive /\ PostHogActive
                 /\ proxies[posthogProvider[1]].store # EmptyObj) =>
                 proxies'[countlyProvider[1]].store # proxies'[posthogProvider[1]].store]_vars

\* after reset() with PostHog alone, both global properties are still returned
Wit_C26 ==
    /\ last.op = "reset" /\ countlyProvider = Undef /\ PostHogActive
    /\ DOMAIN getGlobalProperties = {"k1", "k2"}
    /\ Len(last.sdk) = 1 /\ last.sdk[1].fn = "reset"

\* C27: while screen-view tracking is disabled, a transition to a screen
\* with a registered override dispatches no view and still deletes the entry
\* (and no other); a transition to a screen without an entry made while
\* tracking is enabled tracks the screen's own name, so that is what the next
\* transition to the screen tracks once tracking is back on.
Cex_C27 ==
    [][\A s \in Screens :
        /\ (NavTo(s) /\ ~trackScreenViews /\ s \in DOMAIN screenViewOverrides) =>
              /\ last'.ret = << >> /\ last'.calls = << >> /\ last'.sdk = << >>
              /\ screenViewOverrides' = Delete(screenViewOverrides, s)
        /\ (NavTo(s) /\ trackScreenViews /\ s \notin DOMAIN screenViewOverrides) =>
              /\ last'.ret = << s >>
              /\ \A i \in 1..Len(last'.calls) : last'.calls[i].name = s]_vars

\* the providers getEnabledProviders() lists before and after a step
Enabled == {p \in Provs : hasProvider(p)}
EnabledNext ==
    {p \in Provs : RefActive(proxies', IF p = "countly" THEN countlyProvider'
                                                         ELSE posthogProvider')}

\* C28: once init() has completed (the flag is set and no init() call is
\* still suspended), no step of the public API adds a provider to
\* getEnabledProviders(): a provider that was shut down stays out.
Cex_C28 ==
    [][(initialized /\ \A t \in Tasks : ~InFlight(t)) => EnabledNext \subseteq Enabled]_vars

\* C29: one invocation of a navigation handler dispatches one view at most
\* (one call per active provider at most). onReady dispatches nothing and
\* records the route. onStateChange dispatches only for a non-empty route name
\* that differs from the recorded one, and onRouteChange only for a non-empty
\* URL that differs from the last one its handler object accepted; while
\* tracking is enabled each such transition, the first URL a handler object is
\* told of included, is dispatched.
Thm_C29 ==
    [][/\ last'.op = "onReady" =>
            /\ last'.calls = << >> /\ last'.sdk = << >>
            /\ routeNameRef' = IF TruthyStr(last'.arg) THEN last'.arg ELSE Undef
       /\ last'.op \in {"onStateChange", "onRouteChange"} =>
            LET prev == IF last'.op = "onStateChange" THEN routeNameRef
                        ELSE previousPath[last'.arg[1].handler]
                to == IF last'.op = "onStateChange" THEN last'.arg ELSE last'.arg[1].url
                moved == TruthyStr(to) /\ to # prev
            IN /\ Len(last'.ret) <= 1
               /\ Len(last'.calls) <= Cardinality(Enabled)
               /\ \A p \in Provs :
                      Cardinality({i \in 1..Len(last'.calls) : last'.calls[i].p = p}) <= 1
               /\ ~moved => (last'.ret = << >> /\ last'.calls = << >> /\ last'.sdk = << >>)
               /\ (moved /\ trackScreenViews) =>
                      (Len(last'.ret) = 1 /\ Len(last'.calls) = Cardinality(Enabled))
               /\ (last'.op = "onRouteChange" /\ prev = Undef
                      /\ TruthyStr(to) /\ trackScreenViews) => Len(last'.ret) = 1]_vars

\* the web handler was told of the URL it had accepted last, with tracking
\* enabled and both providers active: nothing was dispatched
Wit_C29 ==
    /\ last.op = "onRouteChange" /\ last.arg = RouteArg(1, Some("Home"))
    /\ previousPath[1] = Some("Home")
    /\ trackScreenViews /\ CountlyActive /\ PostHogActive
    /\ last.ret = << >> /\ last.calls = << >>

\* the calls made on the Countly SDK, in order
CountlySdkCalls(sdk) ==
    LET OnCountly(c) == c.p = "countly" IN SelectSeq(sdk, OnCountly)

\* C30: for an active Countly provider a trackError call first writes one
\* crash-log breadcrumb with the message handed to the provider; with
\* metadata.fatal absent or false nothing else is sent; an exception report
\* follows only when metadata.fatal is truthy, carries the stringified
\* metadata as segments and is passed nonfatal = false.
Thm_C30 ==
    (last.op = "trackError" /\ CountlyActive) =>
        LET metadata == last.arg[1].metadata
            fatal == IF "fatal" \in DOMAIN metadata THEN metadata["fatal"] = "<true>" ELSE FALSE
            cs == CountlySdkCalls(last.sdk)
        IN /\ last.calls[1].p = "countly"
           /\ Len(cs) \in {1, 2}
           /\ cs[1].fn \in {"add_log", "addCrashLog"}
           /\ cs[1].name = last.calls[1].props.message
           /\ ~fatal => Len(cs) = 1
           /\ (fatal /\ cs[1].ok) => Len(cs) = 2
           /\ Len(cs) = 2 =>
                 /\ fatal
                 /\ cs[2].fn \in {"log_error", "logException"}
                 /\ cs[2].nonfatal = "<false>"
                 /\ DOMAIN cs[2].props = DOMAIN metadata
                 /\ \A k \in DOMAIN metadata : cs[2].props[k] = safeString(metadata[k])

\* a non-fatal error with metadata, reported to an active Countly provider:
\* one breadcrumb and no exception report
Wit_C30 ==
    /\ last.op = "trackError" /\ CountlyActive
    /\ last.arg[1].metadata = [k \in {"fatal", "screen"} |-> IF k = "fatal" THEN "<false>" ELSE "ctx"]
    /\ Len(CountlySdkCalls(last.sdk)) = 1
    /\ CountlySdkCalls(last.sdk)[1].name = "boom"
    /\ CountlySdkCalls(last.sdk)[1].ok

====
